---- MODULE Spec2Model ----
(***************************************************************************)
(* PyWall: the firewall rule orchestration of src/src/cmdWorker.py and the *)
(* self-healing configuration store of src/src/config.py.                  *)
(*                                                                         *)
(* Spec        one access_handler call after another (each call is one     *)
(*             process), against a persistent firewall rule set.           *)
(* SpecConfig  validate_config calls against a user-editable document.     *)
(* SpecResolve _gather_target_files on every path under every policy.      *)
(* SpecList    append_config and remove_config calls on a list-valued key. *)
(* SpecMain    main: a shell or command-line request parsed into an        *)
(*             access_handler call, and that call.                         *)
(* SpecPolicy  a process with the policy it read at import, changes of the *)
(*             document and target resolution.                             *)
(* SpecStore   get_config, modify_config, make_default and validate_config *)
(*             calls on every kind of document.                            *)
(* SpecWatchFair  the watcher thread, fairly scheduled, and the editor.     *)
(* SpecWatch   the watcher thread of setup_config_watcher next to          *)
(*             foreground modify_config calls and a user editing the       *)
(*             document, one step per file operation.                      *)
(***************************************************************************)
EXTENDS Integers, Sequences, FiniteSets, TLC

VARIABLES
    \* ---- firewall and access_handler (cmdWorker.py) ----
    rules,          \* the firewall's PyWall rules: set of [name, dir, program]
    pc,             \* position of the running access_handler call
    req,            \* the call's arguments, whether its process is elevated
                    \* (admin(), fixed for a process) and FILETYPE.recursive
    target_files,   \* _gather_target_files' result (a sequence of paths)
    idx,            \* index of the next file of the per-file loop
    all_ok,         \* all_operations_successful
    result,         \* the call's return value, "none" while running or exited
    exitMsg,        \* sys.exit argument when the process exited, else "none"
    executed,       \* ghost: commands run by subprocess.run in this call
    elev,           \* ghost: outcomes of the elevation requests of this call
    fileFailed,     \* ghost: files for which _execute_firewall_commands gave False
    touched,        \* ghost: which stages the call has entered
    calls,          \* number of calls started so far
    prev,           \* ghost: the call that completed before the current one
    rulesBefore,    \* ghost: the rule set when the current call started
    \* ---- configuration store (config.py) ----
    disk,           \* the persisted document
    storageOK,      \* whether open(path, 'w') succeeds
    edits,          \* number of external edits so far
    last,           \* ghost: the validate_config run that just ended
    last2,          \* ghost: the run that ended directly before that one
    \* ---- target resolution on its own (cmdWorker.py) ----
    res,            \* one _gather_target_files call: its inputs and its outcome
    \* ---- list-valued options (config.py) ----
    lastOp,         \* ghost: the foreground store call that just ended
    prevOp,         \* ghost: the call that ended directly before that one
    nops,           \* number of foreground store calls so far
    \* ---- the watcher thread and a foreground modify_config (config.py) ----
    mtime,          \* os.path.getmtime of the document: the time of its last write
    config_last_modified,  \* the watcher's last-seen modification time
    w,              \* the watcher thread: its position and validate_config's locals
    fg,             \* the foreground modify_config call: its position and locals
    poll,           \* ghost: the watcher poll that just ended: whether the
                    \* document existed, its time differed from the last-seen
                    \* one, validate_config ran and returned True, and whether
                    \* the last-seen time was kept or became the time read
    prevFailed,     \* ghost: the poll directly before that one ran
                    \* validate_config and it returned False
    race,           \* ghost: a modify_config and a validation that overlapped
    torn,           \* ghost: the latest config.read saw a document between
                    \* another thread's open('w') and close
    \* ---- main's command line (main.py) ----
    argv            \* what the running process was started with

accessVars == <<rules, pc, req, target_files, idx, all_ok, result, exitMsg,
                executed, elev, fileFailed, touched, calls, prev, rulesBefore>>
configVars == <<disk, storageOK, edits, last, last2>>
resolveVars == <<res>>
listVars == <<lastOp, prevOp, nops>>
watchVars == <<mtime, config_last_modified, w, fg, poll, prevFailed, race, torn>>
mainVars == <<argv>>
extraVars == <<resolveVars, listVars, watchVars, mainVars>>
vars == <<accessVars, configVars, extraVars>>

(***************************************************************************)
(* Bounds                                                                  *)
(***************************************************************************)
MaxCalls == 2
MaxEdits == 3
MaxOps == 2
MaxWatchEdits == 2
MaxSets == 1
MaxStoreCalls == 2
MaxRuns == 1
MaxPolicyOps == 2

(***************************************************************************)
(* Option values.  A value is the sequence of its tokens: "," and " " and  *)
(* words (maximal runs of other characters).                               *)
(***************************************************************************)
Comma == ","
Space == " "

RECURSIVE LStrip(_)
LStrip(t) == IF t # <<>> /\ Head(t) = Space THEN LStrip(Tail(t)) ELSE t

RECURSIVE RStrip(_)
RStrip(t) == IF t # <<>> /\ t[Len(t)] = Space
             THEN RStrip(SubSeq(t, 1, Len(t) - 1)) ELSE t

\* str.strip()
strip(t) == RStrip(LStrip(t))

\* str.split(","): "".split(",") is [""].
RECURSIVE split_comma(_)
split_comma(t) ==
    IF \A i \in DOMAIN t : t[i] # Comma THEN <<t>>
    ELSE LET i == CHOOSE k \in DOMAIN t :
                      t[k] = Comma /\ \A j \in 1..(k - 1) : t[j] # Comma
         IN <<SubSeq(t, 1, i - 1)>> \o split_comma(SubSeq(t, i + 1, Len(t)))

\* str.split(", ")
RECURSIVE split_comma_space(_)
split_comma_space(t) ==
    LET At(k) == k < Len(t) /\ t[k] = Comma /\ t[k + 1] = Space
    IN IF \A i \in DOMAIN t : ~At(i) THEN <<t>>
       ELSE LET i == CHOOSE k \in DOMAIN t : At(k) /\ \A j \in 1..(k - 1) : ~At(j)
            IN <<SubSeq(t, 1, i - 1)>>
               \o split_comma_space(SubSeq(t, i + 2, Len(t)))

\* ", ".join(items)
RECURSIVE join_comma_space(_)
join_comma_space(items) ==
    IF items = <<>> THEN <<>>
    ELSE IF Len(items) = 1 THEN items[1]
    ELSE items[1] \o <<Comma, Space>> \o join_comma_space(Tail(items))

Range(q) == {q[i] : i \in DOMAIN q}

\* The compiled-in default schema.
default_config ==
    (<<"FILETYPE", "accepted_types">> :> <<".exe">>)
    @@ (<<"FILETYPE", "blacklisted_names">> :> <<>>)
    @@ (<<"FILETYPE", "recursive">> :> <<"True">>)
    @@ (<<"GUI", "advanced_mode">> :> <<"False">>)
    @@ (<<"GUI", "stylesheet">> :> <<"dark_red.xml">>)
    @@ (<<"GUI", "first_run">> :> <<"True">>)
    @@ (<<"UI", "show_notifications">> :> <<"True">>)
    @@ (<<"DEBUG", "create_logs">> :> <<"False">>)
    @@ (<<"DEBUG", "create_exception_logs">> :> <<"True">>)
    @@ (<<"DEBUG", "version">> :> <<"v1.8">>)
    @@ (<<"DEBUG", "shell">> :> <<"False">>)

DefaultSections == {p[1] : p \in DOMAIN default_config}
VersionKey == <<"DEBUG", "version">>

(***************************************************************************)
(* The file system the calls resolve paths against.  Creation times are    *)
(* distinct and deliberately not in name order.                            *)
(***************************************************************************)
AppsDir == "C:/apps"
SubDir == "C:/apps/sub"
AppExe == "C:/apps/app.exe"
AppTxt == "C:/apps/app.txt"
ToolExe == "C:/apps/tool.exe"
SubAppExe == "C:/apps/sub/app.exe"
SubAppTxt == "C:/apps/sub/app.txt"
EmptyDir == "C:/apps/empty"
Nowhere == "C:/nowhere"
\* exists, and is neither a regular file nor a directory
Pipe == "//./pipe/pywall"

Dirs == {AppsDir, SubDir, EmptyDir}
RegularFiles == {AppExe, AppTxt, ToolExe, SubAppExe, SubAppTxt}
InputPaths == {AppsDir, AppExe, AppTxt, SubAppExe, Nowhere}

Parent == (AppExe :> AppsDir) @@ (AppTxt :> AppsDir) @@ (ToolExe :> AppsDir)
          @@ (SubDir :> AppsDir) @@ (SubAppExe :> SubDir) @@ (SubAppTxt :> SubDir)
          @@ (EmptyDir :> AppsDir)
Stem == (AppExe :> "app") @@ (AppTxt :> "app") @@ (ToolExe :> "tool")
        @@ (SubAppExe :> "app") @@ (SubAppTxt :> "app") @@ (SubDir :> "sub")
        @@ (AppsDir :> "apps") @@ (Pipe :> "pywall") @@ (EmptyDir :> "empty")
Suffix == (AppExe :> ".exe") @@ (AppTxt :> ".txt") @@ (ToolExe :> ".exe")
          @@ (SubAppExe :> ".exe") @@ (SubAppTxt :> ".txt") @@ (SubDir :> "")
          @@ (AppsDir :> "") @@ (Pipe :> "") @@ (EmptyDir :> "")
Ctime == (ToolExe :> 1) @@ (AppTxt :> 2) @@ (AppExe :> 3) @@ (SubDir :> 4)
         @@ (SubAppExe :> 5) @@ (SubAppTxt :> 6) @@ (EmptyDir :> 7)

exists(p) == p \in Dirs \cup RegularFiles \cup {Pipe}
is_dir(p) == p \in Dirs
is_file(p) == p \in RegularFiles

\* get_allowed_types(): the list made of FILETYPE.accepted_types.
get_allowed_types(allowed_types_str) ==
    IF allowed_types_str = <<>> THEN {}
    ELSE {strip(x) : x \in Range(split_comma(allowed_types_str))}

\* allowedTypes and ignoredFiles are read once, at import, here from the
\* default document: accepted_types ".exe" and blacklisted_names "".
allowedTypes == get_allowed_types(default_config[<<"FILETYPE", "accepted_types">>])
ignoredFiles == Range(split_comma(default_config[<<"FILETYPE", "blacklisted_names">>]))

\* allowed_suffix in f.suffix: substring containment, tabulated for the words
\* and suffixes in use; the empty string is contained in every suffix.
SuffixContains == {<<".exe", ".exe">>, <<".ex", ".exe">>, <<".txt", ".txt">>}
Contains(a, suffix) == a = <<>> \/ (Len(a) = 1 /\ <<a[1], suffix>> \in SuffixContains)

\* any(allowed_suffix in f.suffix ...) and f.stem not in ignoredFiles
EligibleWith(f, allowed, ignored) ==
    /\ \E a \in allowed : Contains(a, Suffix[f])
    /\ <<Stem[f]>> \notin ignored

Eligible(f) == EligibleWith(f, allowedTypes, ignoredFiles)

\* Variant: the list is left in the order glob gave it.
SortAsGlobbed(s) == s

\* sorted(xs, key=os.path.getctime): a stable sort.
RECURSIVE SortByCtime(_)
SortByCtime(s) ==
    IF s = <<>> THEN <<>>
    ELSE LET r == SortByCtime(SubSeq(s, 1, Len(s) - 1))
             x == s[Len(s)]
             n == Cardinality({i \in 1..Len(r) : Ctime[r[i]] <= Ctime[x]})
         IN SubSeq(r, 1, n) \o <<x>> \o SubSeq(r, n + 1, Len(r))

RECURSIVE SetToSeq(_)
SetToSeq(S) == IF S = {} THEN <<>>
               ELSE LET x == CHOOSE y \in S : TRUE IN <<x>> \o SetToSeq(S \ {x})

RECURSIVE Under(_, _)
Under(p, d) == p \in DOMAIN Parent /\ (Parent[p] = d \/ Under(Parent[p], d))

\* glob(path/*): the immediate children.
GlobChildren(d) == SetToSeq({p \in DOMAIN Parent : Parent[p] = d})
\* Variant: the pattern is path/**, which gives the children as well.
GlobBelow_with_children(d) == SetToSeq({p \in DOMAIN Parent : Under(p, d)})

\* glob(path/*/**, recursive=True): the child directories and what is below them.
GlobBelow(d) == SetToSeq({p \in DOMAIN Parent :
                            \/ Parent[p] = d /\ is_dir(p)
                            \/ \E c \in Dirs \cap DOMAIN Parent :
                                  Parent[c] = d /\ Under(p, c)})

\* Variant: the recursive flag is not looked at.
path_foreach_in_recursive(path, recursive) ==
    SortByCtime(SortByCtime(GlobBelow(path)) \o SortByCtime(GlobChildren(path)))

path_foreach_in(path, recursive) ==
    LET filesNoRecursive == SortByCtime(GlobChildren(path))
        filesRecursive == SortByCtime(GlobBelow(path))
    IN IF recursive = "False" THEN filesNoRecursive
       ELSE SortByCtime(filesRecursive \o filesNoRecursive)

\* What path_error shows: the title of the infoMessage dialog, or of the
\* toast of its NameError branch when the dialog is not available (gui FALSE).
path_error(path, gui) ==
    IF ~exists(path)
    THEN (IF gui THEN "Path type does not exist" ELSE "Path doesn't exist")
    ELSE IF gui THEN "No accepted filetype found"
    ELSE IF is_dir(path) THEN "No accepted filetypes"
    ELSE "Filetype not accepted"

\* Variant: the filter looks at the suffix only.
gather_ignoring_blacklist(path, recursive, allowed, ignored, gui) ==
    LET keep(f) == is_file(f) /\ EligibleWith(f, allowed, {})
        err == <<path_error(path, gui)>>
    IN IF ~exists(path) THEN [files |-> <<>>, notices |-> err]
       ELSE IF is_dir(path)
       THEN LET all_files == SelectSeq(path_foreach_in(path, recursive), keep)
            IN [files |-> all_files, notices |-> IF all_files = <<>> THEN err ELSE <<>>]
       ELSE IF is_file(path)
       THEN [files |-> IF EligibleWith(path, allowed, {}) THEN <<path>> ELSE <<>>,
             notices |-> <<>>]
       ELSE [files |-> <<>>, notices |-> err]

\* _gather_target_files with the module's allowedTypes and ignoredFiles given:
\* the list it returns (<<>> stands for None and for []) and the messages it
\* shows to the user (log lines are not shown).
gather(path, recursive, allowed, ignored, gui) ==
    LET keep(f) == is_file(f) /\ EligibleWith(f, allowed, ignored)
        err == <<path_error(path, gui)>>
    IN IF ~exists(path) THEN [files |-> <<>>, notices |-> err]
       ELSE IF is_dir(path)
       THEN LET all_files == SelectSeq(path_foreach_in(path, recursive), keep)
            IN [files |-> all_files, notices |-> IF all_files = <<>> THEN err ELSE <<>>]
       ELSE IF is_file(path)
       THEN [files |-> IF EligibleWith(path, allowed, ignored) THEN <<path>> ELSE <<>>,
             notices |-> <<>>]
       ELSE [files |-> <<>>, notices |-> err]

\* Variant: a single file is taken whatever its suffix and stem.
gather_target_files_any_file(path, recursive) ==
    IF is_file(path) THEN <<path>>
    ELSE gather(path, recursive, allowedTypes, ignoredFiles, TRUE).files

\* The list _gather_target_files returns in a process started with the
\* default document.
gather_target_files(path, recursive) ==
    gather(path, recursive, allowedTypes, ignoredFiles, TRUE).files

(***************************************************************************)
(* Rule commands and the firewall                                          *)
(***************************************************************************)
Actions == {"allow", "deny", "toggle"}
RuleTypes == {"in", "out", "both", "sideways"}
Recursive == {"True", "False"}

\* rule_name = f"PyWall blocked {file_path.stem}"
RuleName(f) == <<"PyWall blocked", Stem[f]>>

NoCmd == [verb |-> "none", name |-> <<>>, dir |-> "", program |-> ""]

\* Variant: allow names the rule after the file name, not the stem.
build_firewall_command_other_name(action, rule_type, f) ==
    IF action = "deny"
    THEN [verb |-> "add", name |-> RuleName(f), dir |-> rule_type, program |-> f]
    ELSE IF action = "allow"
    THEN [verb |-> "delete", name |-> <<"PyWall blocked", f>>, dir |-> rule_type,
          program |-> f]
    ELSE NoCmd

\* Variant: the rule is named after the whole path.
build_firewall_command_path_name(action, rule_type, f) ==
    IF action = "deny"
    THEN [verb |-> "add", name |-> <<"PyWall blocked", f>>, dir |-> rule_type,
          program |-> f]
    ELSE IF action = "allow"
    THEN [verb |-> "delete", name |-> <<"PyWall blocked", f>>, dir |-> rule_type,
          program |-> f]
    ELSE NoCmd

build_firewall_command(action, rule_type, f) ==
    IF action = "deny"
    THEN [verb |-> "add", name |-> RuleName(f), dir |-> rule_type, program |-> f]
    ELSE IF action = "allow"
    THEN [verb |-> "delete", name |-> RuleName(f), dir |-> rule_type, program |-> f]
    ELSE NoCmd

Truthy(cmd) == cmd # NoCmd

\* The body of access_handler's loop up to "if not commands_to_execute".
commands_to_execute(action, rule_type, f) ==
    LET cmd_in == build_firewall_command(action, "in", f)
        cmd_out == build_firewall_command(action, "out", f)
        cmd == build_firewall_command(action, rule_type, f)
    IN IF rule_type = "both"
       THEN (IF Truthy(cmd_in) THEN <<cmd_in>> ELSE <<>>)
            \o (IF Truthy(cmd_out) THEN <<cmd_out>> ELSE <<>>)
       ELSE (IF Truthy(cmd) THEN <<cmd>> ELSE <<>>)

\* Variant: netsh selects the rules by name and direction alone.
Matching_by_name(cmd, rs) == {r \in rs : r.name = cmd.name /\ r.dir = cmd.dir}

Matching(cmd, rs) ==
    {r \in rs : r.name = cmd.name /\ r.dir = cmd.dir /\ r.program = cmd.program}

\* subprocess.run(command, shell=True, check=True): netsh exits non-zero, and
\* check=True raises CalledProcessError, when netsh itself fails (envOk FALSE)
\* and when "delete rule" matches no rule ("No rules match the specified
\* criteria.", exit code 1).  "add rule" never replaces: a second identical
\* rule is a duplicate that "delete rule" removes together with the first,
\* so the set of distinct rules is what add and delete act on.
Netsh(cmd, rs, envOk) ==
    IF ~envOk THEN [rules |-> rs, ok |-> FALSE]
    ELSE IF cmd.verb = "add"
    THEN [rules |-> rs \cup {[name |-> cmd.name, dir |-> cmd.dir, program |-> cmd.program]},
          ok |-> TRUE]
    ELSE IF Matching(cmd, rs) = {} THEN [rules |-> rs, ok |-> FALSE]
    ELSE [rules |-> rs \ Matching(cmd, rs), ok |-> TRUE]

\* Variant: the loop stops at the first failed command.
RECURSIVE run_commands_break(_, _, _, _)
run_commands_break(cmds, rs, env, f) ==
    IF cmds = <<>> THEN [rules |-> rs, log |-> <<>>]
    ELSE LET r == Netsh(Head(cmds), rs, Head(env))
             e == [file |-> f, dir |-> Head(cmds).dir, verb |-> Head(cmds).verb,
                   ok |-> r.ok, env |-> Head(env)]
             rest == IF r.ok THEN run_commands_break(Tail(cmds), r.rules, Tail(env), f)
                     ELSE [rules |-> r.rules, log |-> <<>>]
         IN [rules |-> rest.rules, log |-> <<e>> \o rest.log]

\* The "for command in commands" loop of _execute_firewall_commands: the rule
\* set after the commands and one log entry per command run.
RECURSIVE run_commands(_, _, _, _)
run_commands(cmds, rs, env, f) ==
    IF cmds = <<>> THEN [rules |-> rs, log |-> <<>>]
    ELSE LET r == Netsh(Head(cmds), rs, Head(env))
             e == [file |-> f, dir |-> Head(cmds).dir, verb |-> Head(cmds).verb,
                   ok |-> r.ok, env |-> Head(env)]
             rest == run_commands(Tail(cmds), r.rules, Tail(env), f)
         IN [rules |-> rest.rules, log |-> <<e>> \o rest.log]

\* executed_successfully
AllOk(log) == \A i \in DOMAIN log : log[i].ok

\* Variant: every rule type passes.
validate_rule_type_any(rule_type) == TRUE

validate_rule_type(rule_type) == rule_type \in {"both", "in", "out"}

\* ShellExecuteW(None, "runas", ...) either starts the elevated process
\* ("launched"), returns an error code because the user declined the prompt or
\* the system refused ("declined": a return value, not an exception), or
\* raises ("raised").  The code discards the return value.
ElevationOutcomes == {"launched", "declined", "raised"}

\* Variant: sys.exit is missing, the process goes on to run the commands.
after_elevation_fallthrough(outcome) == IF outcome = "raised" THEN "false" ELSE "run"

\* What the "if not admin()" block does with the outcome: "exit" is
\* sys.exit("Admin re-run"), "false" is "return False".
after_elevation(outcome) == IF outcome = "raised" THEN "false" ELSE "exit"

NoPrev == [valid |-> FALSE, path |-> "", rule_type |-> "", recursive |-> "",
           rulesBefore |-> {}]

\* What the next call remembers of the call that just ended.
Summary ==
    IF pc = "done" /\ req.action = "deny" /\ result = "Operation completed"
    THEN [valid |-> TRUE, path |-> req.path, rule_type |-> req.rule_type,
          recursive |-> req.recursive, rulesBefore |-> rulesBefore]
    ELSE NoPrev

NoReq == [path |-> "", action |-> "", rule_type |-> "", isAdmin |-> FALSE,
          recursive |-> ""]

NoTouch == [fs |-> FALSE, built |-> FALSE, priv |-> FALSE]

(***************************************************************************)
(* access_handler, one step per stage and per file                         *)
(***************************************************************************)
StartCall ==
    /\ pc \in {"idle", "done", "exited"}
    /\ calls < MaxCalls
    /\ \E p \in InputPaths, a \in Actions, rt \in RuleTypes,
          adm \in BOOLEAN, rec \in Recursive :
          req' = [path |-> p, action |-> a, rule_type |-> rt,
                  isAdmin |-> adm, recursive |-> rec]
    /\ pc' = "validate"
    /\ calls' = calls + 1
    /\ prev' = Summary
    /\ rulesBefore' = rules
    /\ target_files' = <<>>
    /\ idx' = 1
    /\ all_ok' = TRUE
    /\ result' = "none"
    /\ exitMsg' = "none"
    /\ executed' = <<>>
    /\ elev' = <<>>
    /\ fileFailed' = {}
    /\ touched' = NoTouch
    /\ UNCHANGED <<rules, configVars, extraVars>>

\* if not _validate_rule_type(rule_type): pop(..., True) notifies and then
\* calls sys.exit(0), so an invalid rule type ends the process inside pop.
ValidateRuleType ==
    /\ pc = "validate"
    /\ IF validate_rule_type(req.rule_type)
       THEN pc' = "gather" /\ exitMsg' = exitMsg
       ELSE pc' = "exited" /\ exitMsg' = "0"
    /\ UNCHANGED <<rules, req, target_files, idx, all_ok, result, executed, elev,
                   fileFailed, touched, calls, prev, rulesBefore, configVars, extraVars>>

GatherTargets ==
    /\ pc = "gather"
    /\ target_files' = gather_target_files(req.path, req.recursive)
    /\ touched' = [touched EXCEPT !.fs = TRUE]
    /\ IF target_files' = <<>>
       THEN pc' = "done" /\ result' = "No target files"
       ELSE pc' = "loop" /\ result' = result
    /\ UNCHANGED <<rules, req, idx, all_ok, exitMsg, executed, elev, fileFailed,
                   calls, prev, rulesBefore, configVars, extraVars>>

\* One iteration of "for file_path_obj in target_files", with the call of
\* _execute_firewall_commands it makes.
ExecuteFile ==
    /\ pc = "loop"
    /\ idx <= Len(target_files)
    /\ LET f == target_files[idx]
           cmds == commands_to_execute(req.action, req.rule_type, f)
           run(env) ==
               LET r == run_commands(cmds, rules, env, f)
               IN /\ rules' = r.rules
                  /\ executed' = executed \o r.log
                  /\ fileFailed' = IF AllOk(r.log) THEN fileFailed ELSE fileFailed \cup {f}
                  /\ all_ok' = (all_ok /\ AllOk(r.log))
                  /\ idx' = idx + 1
                  /\ UNCHANGED <<pc, exitMsg>>
       IN /\ touched' = [touched EXCEPT !.built = TRUE, !.priv = (@ \/ cmds # <<>>)]
          /\ IF cmds = <<>>
             THEN /\ idx' = idx + 1
                  /\ UNCHANGED <<rules, executed, fileFailed, all_ok, pc, exitMsg, elev>>
             ELSE IF ~req.isAdmin
             THEN \E o \in ElevationOutcomes :
                    /\ elev' = Append(elev, o)
                    /\ CASE after_elevation(o) = "exit" ->
                              /\ pc' = "exited"
                              /\ exitMsg' = "Admin re-run"
                              /\ UNCHANGED <<rules, executed, fileFailed, all_ok, idx>>
                         [] after_elevation(o) = "false" ->
                              /\ fileFailed' = fileFailed \cup {f}
                              /\ all_ok' = FALSE
                              /\ idx' = idx + 1
                              /\ UNCHANGED <<rules, executed, pc, exitMsg>>
                         [] OTHER ->
                              \E env \in [1..Len(cmds) -> {FALSE}] : run(env)
             ELSE /\ elev' = elev
                  /\ \E env \in [1..Len(cmds) -> BOOLEAN] : run(env)
    /\ UNCHANGED <<req, target_files, result, calls, prev, rulesBefore, configVars, extraVars>>

\* After the loop: the notification and the return value.
Aggregate ==
    /\ pc = "loop"
    /\ idx > Len(target_files)
    /\ pc' = "done"
    /\ result' = IF all_ok THEN "Operation completed"
                 ELSE "Operation failed for some files"
    /\ UNCHANGED <<rules, req, target_files, idx, all_ok, exitMsg, executed, elev,
                   fileFailed, touched, calls, prev, rulesBefore, configVars, extraVars>>

AccessNext == StartCall \/ ValidateRuleType \/ GatherTargets \/ ExecuteFile \/ Aggregate


(***************************************************************************)
(* main: from the command line to the access_handler call                  *)
(***************************************************************************)
\* parse_known_args' result: the value of -c (a text, as tokens), the
\* arguments no option claims, and the values of -file, -allow and
\* -rule_type; "" and <<>> stand for an option that was not given.
Args(c, unknown_args, file, allow, rule_type) ==
    [c |-> c, unknown_args |-> unknown_args, file |-> file, allow |-> allow,
     rule_type |-> rule_type]

\* choices=... of -allow and -rule_type
AllowChoices == {"true", "True", "false", "False"}
RuleTypeChoices == {"in", "out", "both"}

\* args.allow.lower()
AllowLower == ("true" :> "true") @@ ("True" :> "true")
              @@ ("false" :> "false") @@ ("False" :> "false")

\* word in text, for the words main looks for
WordContains == {<<"allowAccess", "allowAccess">>, <<"denyAccess", "denyAccess">>,
                 <<"allowAccess", "shellHandler.allowAccess">>,
                 <<"denyAccess", "shellHandler.denyAccess">>}
HasWord(word, text) == \E i \in DOMAIN text : <<word, text[i]>> \in WordContains

\* What main ends in: a call of access_handler, or the process' exit.
MainCall(path, action, rule_type) ==
    [kind |-> "call", path |-> path, action |-> action, rule_type |-> rule_type,
     code |-> "none"]
MainExit(code) ==
    [kind |-> "exit", path |-> "", action |-> "", rule_type |-> "", code |-> code]

\* if "allowAccess" in shell_action_command ... elif "denyAccess" in ...
shell_action(shell_action_command) ==
    IF HasWord("allowAccess", shell_action_command) THEN "allow"
    ELSE IF HasWord("denyAccess", shell_action_command) THEN "deny"
    ELSE ""

\* Variant: the rule type of the command string is not looked at.
shell_rule_type_default(argument_parts) == "both"

\* Variant: the rule type of the command string is passed on unchecked.
shell_rule_type_unchecked(argument_parts) ==
    IF Len(argument_parts) > 1 /\ Len(argument_parts[2]) = 1
    THEN argument_parts[2][1]
    ELSE "both"

\* rule_type_str of the shell branch
shell_rule_type(argument_parts) ==
    IF Len(argument_parts) > 1
       /\ argument_parts[2] \in {<<rt>> : rt \in {"in", "out", "both"}}
    THEN argument_parts[2][1]
    ELSE "both"

\* main() from the argument parsing on, started with a valid document.
main(args) ==
    LET argument_parts == split_comma(args.c)
        shell_action_command == argument_parts[1]
    IN IF args.allow \notin AllowChoices \cup {""}
          \/ args.rule_type \notin RuleTypeChoices \cup {""}
       THEN MainExit("2")
       ELSE IF args.c # <<>>
       THEN IF args.unknown_args = <<>> THEN MainExit("1")
            ELSE IF shell_action(shell_action_command) = "" THEN MainExit("1")
            ELSE MainCall(args.unknown_args[1], shell_action(shell_action_command),
                          shell_rule_type(argument_parts))
       ELSE IF args.file # "" /\ args.allow # "" /\ args.rule_type # ""
       THEN MainCall(args.file,
                     IF AllowLower[args.allow] = "true" THEN "allow" ELSE "deny",
                     args.rule_type)
       ELSE IF args.file = "" /\ args.allow = "" /\ args.rule_type = ""
       THEN MainExit("gui")
       ELSE MainExit("0")

\* The command lines processes are started with.
MainPaths == {AppExe, AppsDir, AppTxt, EmptyDir, Pipe, Nowhere}
ShellCommands == {<<"allowAccess">>, <<"denyAccess">>,
                  <<"allowAccess", Comma, "in">>, <<"denyAccess", Comma, "out">>,
                  <<"shellHandler.denyAccess", Comma, "both">>,
                  <<"allowAccess", Comma, "sideways">>, <<"toggleAccess", Comma, "in">>}
ShellArgs == {Args(c, u, "", "", "") :
                c \in ShellCommands, u \in {<<>>} \cup {<<p>> : p \in MainPaths}}
CliArgs == {Args(<<>>, <<>>, f, a, rt) :
              f \in {"", AppExe, AppsDir, AppTxt},
              a \in AllowChoices \cup {"", "yes"},
              rt \in RuleTypeChoices \cup {"", "sideways"}}

NoArgs == Args(<<>>, <<>>, "", "", "")

\* A process starts, parses args and, unless it exits, calls access_handler.
StartProcess(args) ==
    /\ pc \in {"idle", "done", "exited"}
    /\ calls < MaxRuns
    /\ argv' = args
    /\ LET m == main(args)
       IN IF m.kind = "call"
          THEN /\ \E adm \in BOOLEAN :
                    req' = [path |-> m.path, action |-> m.action,
                            rule_type |-> m.rule_type, isAdmin |-> adm,
                            recursive |-> default_config[<<"FILETYPE", "recursive">>][1]]
               /\ pc' = "validate"
               /\ exitMsg' = "none"
          ELSE /\ req' = NoReq
               /\ pc' = "exited"
               /\ exitMsg' = m.code
    /\ calls' = calls + 1
    /\ prev' = Summary
    /\ rulesBefore' = rules
    /\ target_files' = <<>>
    /\ idx' = 1
    /\ all_ok' = TRUE
    /\ result' = "none"
    /\ executed' = <<>>
    /\ elev' = <<>>
    /\ fileFailed' = {}
    /\ touched' = NoTouch
    /\ UNCHANGED <<rules, configVars, resolveVars, listVars, watchVars>>

MainShell == \E args \in ShellArgs : StartProcess(args)

MainCli == \E args \in CliArgs \ {NoArgs} : StartProcess(args)

MainNext == MainShell \/ MainCli \/ ValidateRuleType \/ GatherTargets \/ ExecuteFile
            \/ Aggregate

MainIdle == argv = NoArgs

(***************************************************************************)
(* The configuration store                                                 *)
(***************************************************************************)
\* A document is missing, corrupt (configparser raises on it), locked (it
\* exists, open() raises OSError on it) or ok: its sections and its options
\* (section, key as written) -> value.
MissingDoc == [kind |-> "missing", secs |-> {}, opts |-> <<>>]
CorruptDoc == [kind |-> "corrupt", secs |-> {}, opts |-> <<>>]
LockedDoc == [kind |-> "locked", secs |-> {}, opts |-> <<>>]
DefaultDoc == [kind |-> "ok", secs |-> DefaultSections, opts |-> default_config]

\* ConfigParser.optionxform: option names are lower-cased when read and when
\* looked up.
Lower(k) == IF k = "MyKey" THEN "mykey" ELSE k

\* BasicInterpolation.before_get raises InterpolationSyntaxError (a
\* configparser.Error) on a value holding a '%' not followed by '%' or '('.
BadInterpolation(v) == \E i \in DOMAIN v : v[i] \in {"v1.7%", "50%"}

\* config.read on a parseable file.
Read(d) ==
    LET keys == {<<q[1], Lower(q[2])>> : q \in DOMAIN d.opts}
    IN [secs |-> d.secs,
        opts |-> [p \in keys |->
                    d.opts[CHOOSE q \in DOMAIN d.opts : <<q[1], Lower(q[2])>> = p]]]

\* config.write
Write(cfg) == [kind |-> "ok", secs |-> cfg.secs, opts |-> cfg.opts]

\* open(path, 'w') succeeds
CanWrite(d, sok) == sok /\ d.kind # "locked"

\* Variant: the sections are written without their options.
make_default_sections_only(d, sok) ==
    IF CanWrite(d, sok) THEN [kind |-> "ok", secs |-> DefaultSections, opts |-> <<>>]
    ELSE d

\* make_default: writes the default document; an OSError is logged only.
make_default(d, sok) == IF CanWrite(d, sok) THEN DefaultDoc ELSE d

\* Variant: a document with anything missing is reset to the defaults.
fill_missing_reset(cfg) ==
    IF DOMAIN default_config \subseteq DOMAIN cfg.opts THEN cfg
    ELSE [secs |-> DefaultSections, opts |-> default_config]

\* The "for section_key, section_values" loop of validate_config.
fill_missing(cfg) ==
    [secs |-> cfg.secs \cup DefaultSections,
     opts |-> [p \in DOMAIN cfg.opts \cup DOMAIN default_config |->
                 IF p \in DOMAIN cfg.opts THEN cfg.opts[p] ELSE default_config[p]]]

\* Variant: the flag starts out set.
needs_save_always(cfg) == TRUE

\* needs_save after the loop: some section or option was added.
\* Variant: the filled-in options are never saved.
needs_save_never(cfg) == FALSE

needs_save_after_fill(cfg) == ~(DOMAIN default_config \subseteq DOMAIN cfg.opts)

RunRecord(d, ret, reached, recreated, attempts, inserted, verChanged) ==
    [valid |-> TRUE, ret |-> ret, reached |-> reached, recreated |-> recreated,
     attempts |-> attempts, inserted |-> inserted, verChanged |-> verChanged,
     after |-> d]

\* validate_config from "--- Validating Configuration Structure ---" on: d is
\* the document on disk, cfg what config.read made of it.
validate_structure(d, cfg, sok, recreated) ==
    LET needs1 == needs_save_after_fill(cfg)
        inserted == ~(DOMAIN default_config \subseteq DOMAIN cfg.opts)
        cfg1 == fill_missing(cfg)
        d1 == IF needs1 THEN Write(cfg1) ELSE d
        cur == cfg1.opts[VersionKey]
        changed == cur # default_config[VersionKey]
        cfg2 == [cfg1 EXCEPT !.opts[VersionKey] = default_config[VersionKey]]
    IN IF needs1 /\ ~CanWrite(d, sok)
       THEN RunRecord(d, FALSE, TRUE, recreated, 1, inserted, FALSE)
       ELSE IF BadInterpolation(cur)
       THEN RunRecord(d1, TRUE, TRUE, recreated, IF needs1 THEN 1 ELSE 0, inserted, FALSE)
       ELSE IF ~(needs1 \/ changed)
       THEN RunRecord(d1, TRUE, TRUE, recreated, 0, inserted, FALSE)
       ELSE IF ~CanWrite(d, sok)
       THEN RunRecord(d1, FALSE, TRUE, recreated, 1, inserted, changed)
       ELSE RunRecord(Write(cfg2), TRUE, TRUE, recreated,
                      IF needs1 THEN 2 ELSE 1, inserted, changed)

\* validate_config(): the record of the run, with the document it leaves.
validate_config(d, sok) ==
    LET d0 == IF d.kind = "missing" THEN make_default(d, sok) ELSE d
        d1 == IF d0.kind = "corrupt" THEN make_default(d0, sok) ELSE d0
        recreated == d1 # d
    IN IF d1.kind \in {"missing", "locked", "corrupt"}
       THEN RunRecord(d1, FALSE, FALSE, recreated, 0, FALSE, FALSE)
       ELSE validate_structure(d1, Read(d1), sok, recreated)

NoRun == [valid |-> FALSE, ret |-> FALSE, reached |-> FALSE, recreated |-> FALSE,
          attempts |-> 0, inserted |-> FALSE, verChanged |-> FALSE,
          after |-> MissingDoc, before |-> MissingDoc]
NoRun2 == [valid |-> FALSE, ret |-> FALSE]

\* What a user's editor can put into the document.
UserValues == {<<"FILETYPE", "accepted_types", <<".exe", ",", " ", ".dll">>>>,
               <<"GUI", "stylesheet", <<"light_blue.xml">>>>,
               <<"DEBUG", "version", <<"v1.7">>>>,
               <<"DEBUG", "version", <<"v1.7%">>>>,
               <<"FILETYPE", "custom", <<"1">>>>,
               <<"USER", "MyKey", <<"1">>>>}

SetOption(d, s, k, v) ==
    LET base == IF d.kind = "ok" THEN d ELSE [kind |-> "ok", secs |-> {}, opts |-> <<>>]
    IN [kind |-> "ok", secs |-> base.secs \cup {s},
        opts |-> [p \in DOMAIN base.opts \cup {<<s, k>>} |->
                    IF p = <<s, k>> THEN v ELSE base.opts[p]]]

RemoveOption(d, p) ==
    [d EXCEPT !.opts = [q \in DOMAIN d.opts \ {p} |-> d.opts[q]]]

RemoveSection(d, s) ==
    [d EXCEPT !.secs = @ \ {s},
              !.opts = [q \in {x \in DOMAIN d.opts : x[1] # s} |-> d.opts[q]]]

\* The user edits, replaces, damages, locks or deletes the document.
ExternalEdit ==
    /\ edits < MaxEdits
    /\ edits' = edits + 1
    /\ \/ disk' \in {MissingDoc, CorruptDoc, LockedDoc} \ {disk}
       \/ \E u \in UserValues :
            /\ disk.kind \in {"ok", "missing"}
            /\ \A q \in DOMAIN disk.opts :
                 (q[1] = u[1] /\ Lower(q[2]) = Lower(u[2])) => q[2] = u[2]
            /\ disk' = SetOption(disk, u[1], u[2], u[3])
            /\ disk' # disk
       \/ /\ disk.kind = "ok"
          /\ \E p \in DOMAIN disk.opts : disk' = RemoveOption(disk, p)
       \/ /\ disk.kind = "ok"
          /\ \E s \in disk.secs : disk' = RemoveSection(disk, s)
    /\ last' = NoRun
    /\ last2' = NoRun2
    /\ UNCHANGED <<storageOK, accessVars, extraVars>>

\* The storage turns read-only, or writable again.
ToggleStorage ==
    /\ storageOK' = ~storageOK
    /\ UNCHANGED <<disk, edits, last, last2, accessVars, extraVars>>

\* One call of validate_config.
ValidateConfig ==
    /\ LET r == validate_config(disk, storageOK)
       IN /\ disk' = r.after
          /\ last' = r @@ [before |-> disk]
    /\ last2' = [valid |-> last.valid, ret |-> last.ret]
    /\ UNCHANGED <<storageOK, edits, accessVars, extraVars>>

ConfigNext == ExternalEdit \/ ToggleStorage \/ ValidateConfig

(***************************************************************************)
(* List-valued options: append_config and remove_config                    *)
(***************************************************************************)
\* config_file(): the document once the path has been handed out.
config_file(d, sok) == IF d.kind = "missing" THEN make_default(d, sok) ELSE d

\* [item.strip() for item in parts if item.strip()]
stripped_items(parts) ==
    SelectSeq([i \in DOMAIN parts |-> strip(parts[i])], LAMBDA x : x # <<>>)

\* The "for val_item in value_to_append" loop.
RECURSIVE append_loop(_, _)
append_loop(all_values, todo) ==
    IF todo = <<>> THEN [values |-> all_values, count |-> 0]
    ELSE LET str_val_item == strip(Head(todo))
             add == str_val_item # <<>> /\ str_val_item \notin Range(all_values)
             rest == append_loop(IF add THEN Append(all_values, str_val_item)
                                 ELSE all_values, Tail(todo))
         IN [values |-> rest.values, count |-> rest.count + (IF add THEN 1 ELSE 0)]

\* list.remove(x): the first occurrence goes.
RECURSIVE remove_first(_, _)
remove_first(q, x) ==
    IF q = <<>> THEN <<>>
    ELSE IF Head(q) = x THEN Tail(q)
    ELSE <<Head(q)>> \o remove_first(Tail(q), x)

\* The "for val_item in value_to_remove" loop.
RECURSIVE remove_loop(_, _)
remove_loop(temp_values, todo) ==
    IF todo = <<>> THEN [values |-> temp_values, count |-> 0]
    ELSE LET str_val_item == strip(Head(todo))
             found == str_val_item \in Range(temp_values)
             rest == remove_loop(IF found THEN remove_first(temp_values, str_val_item)
                                 ELSE temp_values, Tail(todo))
         IN [values |-> rest.values, count |-> rest.count + (IF found THEN 1 ELSE 0)]

\* What config.read leaves in the parser: nothing for a file that is missing
\* or cannot be opened.
ReadOrEmpty(d) == IF d.kind = "ok" THEN Read(d) ELSE [secs |-> {}, opts |-> <<>>]

\* config.set(section, variable, value), the section being there
SetParsed(cfg, section, variable, value) ==
    [secs |-> cfg.secs \cup {section},
     opts |-> [q \in DOMAIN cfg.opts \cup {<<section, Lower(variable)>>} |->
                 IF q = <<section, Lower(variable)>> THEN value ELSE cfg.opts[q]]]

\* A call's outcome: the document it leaves, its return value, whether it
\* returned from an except branch, how often it opened the document for
\* writing (make_default included), and appended_count or removed_count.
OpResult(d, ret, raised, writes, count) ==
    [after |-> d, ret |-> ret, raised |-> raised, writes |-> writes, count |-> count]

\* all_values of remove_config
list_items_for_removal(current_value_str) ==
    stripped_items(split_comma_space(current_value_str))

\* all_values of append_config
list_items_for_append(current_value_str) ==
    IF current_value_str = <<>> THEN <<>>
    ELSE stripped_items(split_comma(current_value_str))

append_config(d, sok, section, variable, value_to_append) ==
    LET d0 == config_file(d, sok)
        w0 == IF d0 # d THEN 1 ELSE 0
        cfg == ReadOrEmpty(d0)
        p == <<section, Lower(variable)>>
        has == p \in DOMAIN cfg.opts
        current_value_str == IF has THEN cfg.opts[p] ELSE <<>>
        r == append_loop(list_items_for_append(current_value_str), value_to_append)
        cfg2 == SetParsed(cfg, section, variable, join_comma_space(r.values))
    IN IF d0.kind = "corrupt" \/ BadInterpolation(current_value_str)
       THEN OpResult(d0, FALSE, TRUE, w0, 0)
       ELSE IF r.count = 0 THEN OpResult(d0, TRUE, FALSE, w0, 0)
       ELSE IF CanWrite(d0, sok)
       THEN OpResult(Write(cfg2), TRUE, FALSE, w0 + 1, r.count)
       ELSE OpResult(d0, FALSE, TRUE, w0, r.count)

remove_config(d, sok, section, variable, value_to_remove) ==
    LET d0 == config_file(d, sok)
        w0 == IF d0 # d THEN 1 ELSE 0
        cfg == ReadOrEmpty(d0)
        p == <<section, Lower(variable)>>
        has == p \in DOMAIN cfg.opts
        current_value_str == IF has THEN cfg.opts[p] ELSE <<>>
        r == remove_loop(list_items_for_removal(current_value_str), value_to_remove)
        cfg2 == SetParsed(cfg, section, variable, join_comma_space(r.values))
    IN IF d0.kind = "corrupt" \/ BadInterpolation(current_value_str)
       THEN OpResult(d0, FALSE, TRUE, w0, 0)
       ELSE IF d0.kind = "missing" \/ ~has THEN OpResult(d0, FALSE, FALSE, w0, 0)
       ELSE IF r.count = 0 THEN OpResult(d0, TRUE, FALSE, w0, 0)
       ELSE IF CanWrite(d0, sok)
       THEN OpResult(Write(cfg2), TRUE, FALSE, w0 + 1, r.count)
       ELSE OpResult(d0, FALSE, TRUE, w0, r.count)

ListSection == "FILETYPE"
ListVariable == "blacklisted_names"
ListKey == <<ListSection, ListVariable>>

\* The values callers pass, and the lists of them.
ListValues == {<<"file1">>, <<"file2">>, <<"file404">>, <<Space, "file3", Space>>,
               <<"a", Comma, "b">>, <<>>}
ValueLists == {<<v>> : v \in ListValues}
              \cup {<<<<"file2">>, <<"file3">>>>, <<<<"file1">>, <<"file1">>>>}

\* The lists a document holds at the start: written by hand without spaces,
\* or the way append_config writes them.
StoredTexts == {<<"file1", Comma, "file2", Comma, "file3">>,
                <<"file1", Comma, Space, "file2", Comma, Space, "file3">>,
                <<"file1", Comma, "file2">>,
                <<"file1", Comma, Space, "file3">>}

ListDocs == {MissingDoc, CorruptDoc, LockedDoc, DefaultDoc,
             RemoveOption(DefaultDoc, ListKey), RemoveSection(DefaultDoc, ListSection)}
            \cup {SetOption(MissingDoc, ListSection, ListVariable, t) : t \in StoredTexts}

NoOp == [op |-> "none", values |-> <<>>, ret |-> FALSE, raised |-> FALSE,
         writes |-> 0, count |-> 0, before |-> MissingDoc, canWrite |-> FALSE]

OpRecord(op, values, r) ==
    [op |-> op, values |-> values, ret |-> r.ret, raised |-> r.raised,
     writes |-> r.writes, count |-> r.count, before |-> disk,
     canWrite |-> storageOK]

ListIdle == lastOp = NoOp /\ prevOp = NoOp /\ nops = 0

ListInit ==
    /\ disk \in ListDocs
    /\ storageOK \in BOOLEAN
    /\ edits = 0
    /\ last = NoRun
    /\ last2 = NoRun2
    /\ ListIdle

AppendConfig ==
    /\ nops < MaxOps
    /\ \E values \in ValueLists :
         LET r == append_config(disk, storageOK, ListSection, ListVariable, values)
         IN /\ disk' = r.after
            /\ lastOp' = OpRecord("append", values, r)
    /\ prevOp' = lastOp
    /\ nops' = nops + 1
    /\ UNCHANGED <<storageOK, edits, last, last2, accessVars, resolveVars, watchVars, mainVars>>

RemoveConfig ==
    /\ nops < MaxOps
    /\ \E values \in ValueLists :
         LET r == remove_config(disk, storageOK, ListSection, ListVariable, values)
         IN /\ disk' = r.after
            /\ lastOp' = OpRecord("remove", values, r)
    /\ prevOp' = lastOp
    /\ nops' = nops + 1
    /\ UNCHANGED <<storageOK, edits, last, last2, accessVars, resolveVars, watchVars, mainVars>>

ListNext == AppendConfig \/ RemoveConfig

(***************************************************************************)
(* get_config, modify_config, make_default and validate_config as whole    *)
(* calls, one after another                                                *)
(***************************************************************************)
\* What get_config returns: a value, or None.
None == [kind |-> "None", value |-> <<>>]
Value(v) == [kind |-> "value", value |-> v]

\* "if section in default_config and variable in default_config[section]:
\* return default_config[section][variable]", else "return None"; the names
\* are compared as given.
default_or_none(section, variable) ==
    IF <<section, variable>> \in DOMAIN default_config
    THEN Value(default_config[<<section, variable>>])
    ELSE None

\* An argument after (section, variable): a str or an int, with its text as
\* a sequence of characters.
StrArg(text) == [type |-> "str", text |-> text]
IntArg(text) == [type |-> "int", text |-> text]

DigitValue == ("0" :> 0) @@ ("1" :> 1) @@ ("2" :> 2) @@ ("3" :> 3) @@ ("4" :> 4)
              @@ ("5" :> 5) @@ ("6" :> 6) @@ ("7" :> 7) @@ ("8" :> 8) @@ ("9" :> 9)

RECURSIVE digits_value(_)
digits_value(cs) ==
    IF cs = <<>> THEN 0
    ELSE 10 * digits_value(SubSeq(cs, 1, Len(cs) - 1)) + DigitValue[cs[Len(cs)]]

\* int(text): blanks around it and one sign are allowed, then digits only;
\* anything else is a ValueError (ok is FALSE).
int(text) ==
    LET t == strip(text)
        signed == t # <<>> /\ Head(t) \in {"-", "+"}
        ds == IF signed THEN Tail(t) ELSE t
    IN IF ds = <<>> \/ \E i \in DOMAIN ds : ds[i] \notin DOMAIN DigitValue
       THEN [ok |-> FALSE, n |-> 0]
       ELSE [ok |-> TRUE,
             n |-> IF signed /\ Head(t) = "-" THEN 0 - digits_value(ds)
                   ELSE digits_value(ds)]

\* ''.join(extra_args), for arguments that are all str
RECURSIVE join_args(_)
join_args(extra_args) ==
    IF extra_args = <<>> THEN <<>>
    ELSE Head(extra_args).text \o join_args(Tail(extra_args))

\* ''.join(extra_args) raises TypeError on an argument that is not a str.
JoinRaises(extra_args) == \E i \in DOMAIN extra_args : extra_args[i].type # "str"

\* value_list[index] of "value_str.split(', ')": a negative index counts
\* from the end, an index outside the list is an IndexError (None).
get_indexed(value_str, extra_args) ==
    LET value_list == split_comma_space(value_str)
        index == int(join_args(extra_args))
        n == Len(value_list)
    IN IF ~index.ok THEN None
       ELSE IF index.n \in 0..(n - 1) THEN Value(value_list[index.n + 1])
       ELSE IF index.n \in (0 - n)..(0 - 1) THEN Value(value_list[n + index.n + 1])
       ELSE None

\* config.read of a second file into a parser that holds cfg already.
ReadInto(cfg, d) ==
    LET new == ReadOrEmpty(d)
    IN [secs |-> cfg.secs \cup new.secs,
        opts |-> [q \in DOMAIN cfg.opts \cup DOMAIN new.opts |->
                    IF q \in DOMAIN new.opts THEN new.opts[q] ELSE cfg.opts[q]]]

\* A get_config call's outcome: the document it leaves, what it returns and
\* how many validate_config calls it made.
GetResult(d, ret, validations) == [after |-> d, ret |-> ret, validations |-> validations]

get_config(d, sok, section, variable, extra_args) ==
    LET d0 == config_file(d, sok)
        unread == d0.kind \in {"missing", "locked"}
        d1 == IF unread THEN validate_config(d0, sok).after ELSE d0
        n1 == IF unread THEN 1 ELSE 0
        p == <<section, Lower(variable)>>
        cfg == ReadOrEmpty(d1)
        d2 == validate_config(d1, sok).after
        cfg2 == ReadInto(cfg, d2)
    IN IF d0.kind = "corrupt"
       THEN GetResult(d0, default_or_none(section, variable), 0)
       ELSE IF d1.kind # "ok"
       THEN GetResult(d1, default_or_none(section, variable), n1)
       ELSE IF extra_args # <<>> /\ JoinRaises(extra_args)
       THEN GetResult(d1, None, n1)
       ELSE IF p \in DOMAIN cfg.opts
       THEN IF BadInterpolation(cfg.opts[p])
            THEN GetResult(d1, default_or_none(section, variable), n1)
            ELSE IF extra_args # <<>>
            THEN GetResult(d1, get_indexed(cfg.opts[p], extra_args), n1)
            ELSE GetResult(d1, Value(cfg.opts[p]), n1)
       ELSE IF p \in DOMAIN cfg2.opts
       THEN GetResult(d2, Value(cfg2.opts[p]), n1 + 1)
       ELSE GetResult(d2, default_or_none(section, variable), n1 + 1)

\* modify_config as one call; it returns None on every path.
modify_config(d, sok, section, variable, value) ==
    LET d0 == config_file(d, sok)
        d1 == IF d0.kind = "missing" THEN make_default(d0, sok) ELSE d0
        w0 == IF d1 # d THEN 1 ELSE 0
        cfg2 == SetParsed(ReadOrEmpty(d1), section, variable, value)
    IN IF d1.kind = "corrupt" \/ BadInterpolation(value)
       THEN OpResult(d1, FALSE, TRUE, w0, 0)
       ELSE IF CanWrite(d1, sok)
       THEN OpResult(Write(cfg2), FALSE, FALSE, w0 + 1, 1)
       ELSE OpResult(d1, FALSE, TRUE, w0, 0)

\* The documents a call can find.
StoreDocs ==
    {MissingDoc, CorruptDoc, LockedDoc, DefaultDoc,
     [kind |-> "ok", secs |-> {}, opts |-> <<>>],
     RemoveOption(DefaultDoc, <<"FILETYPE", "accepted_types">>),
     RemoveSection(DefaultDoc, "GUI"),
     SetOption(DefaultDoc, "FILETYPE", "accepted_types", <<".exe", Comma, Space, ".dll">>),
     SetOption(DefaultDoc, "DEBUG", "version", <<"v1.7%">>),
     SetOption(DefaultDoc, "FILETYPE", "custom", <<"1">>)}

\* The keys callers ask for, and the arguments they index with.
GetKeys == {<<"FILETYPE", "accepted_types">>, <<"GUI", "stylesheet">>,
            <<"DEBUG", "version">>, <<"FILETYPE", "custom">>, <<"NOSEC", "nokey">>}
IndexArgs == {<<>>, <<StrArg(<<"0">>)>>, <<StrArg(<<"1">>)>>, <<StrArg(<<"2">>)>>,
              <<StrArg(<<"-", "1">>)>>, <<StrArg(<<"x">>)>>, <<IntArg(<<"0">>)>>}

\* What callers set.
ModifyRequests == {<<"GUI", "stylesheet", <<"light_blue.xml">>>>,
                   <<"NEW", "k", <<"v">>>>,
                   <<"GUI", "k", <<"50%">>>>,
                   <<"FILETYPE", "accepted_types", <<".exe", Comma, Space, ".dll">>>>}

\* The record of a call: what was called with which arguments, what it
\* returned (ret of get_config, flag of validate_config), how many
\* validate_config calls and opens for writing it made.
StoreRecord(op, key, extra_args, value, ret, flag, validations, writes) ==
    [op |-> op, section |-> key[1], variable |-> key[2], extra_args |-> extra_args,
     value |-> value, ret |-> ret, flag |-> flag, validations |-> validations,
     writes |-> writes, before |-> disk, canWrite |-> storageOK]

StoreInit ==
    /\ disk \in StoreDocs
    /\ storageOK \in BOOLEAN
    /\ edits = 0
    /\ last = NoRun
    /\ last2 = NoRun2
    /\ ListIdle

GetConfig ==
    /\ nops < MaxStoreCalls
    /\ \E key \in GetKeys, extra_args \in IndexArgs :
         LET r == get_config(disk, storageOK, key[1], key[2], extra_args)
         IN /\ disk' = r.after
            /\ lastOp' = StoreRecord("get", key, extra_args, <<>>, r.ret, FALSE,
                                     r.validations, 0)
    /\ prevOp' = lastOp
    /\ nops' = nops + 1
    /\ UNCHANGED <<storageOK, edits, last, last2, accessVars, resolveVars, watchVars, mainVars>>

ModifyConfig ==
    /\ nops < MaxStoreCalls
    /\ \E q \in ModifyRequests :
         LET r == modify_config(disk, storageOK, q[1], q[2], q[3])
         IN /\ disk' = r.after
            /\ lastOp' = StoreRecord("modify", <<q[1], q[2]>>, <<>>, q[3], None, FALSE,
                                     0, r.writes)
    /\ prevOp' = lastOp
    /\ nops' = nops + 1
    /\ UNCHANGED <<storageOK, edits, last, last2, accessVars, resolveVars, watchVars, mainVars>>

MakeDefault ==
    /\ nops < MaxStoreCalls
    /\ disk' = make_default(disk, storageOK)
    /\ lastOp' = StoreRecord("make_default", <<"", "">>, <<>>, <<>>, None, FALSE, 0,
                             IF CanWrite(disk, storageOK) THEN 1 ELSE 0)
    /\ prevOp' = lastOp
    /\ nops' = nops + 1
    /\ UNCHANGED <<storageOK, edits, last, last2, accessVars, resolveVars, watchVars, mainVars>>

ValidateStored ==
    /\ nops < MaxStoreCalls
    /\ LET r == validate_config(disk, storageOK)
       IN /\ disk' = r.after
          /\ lastOp' = StoreRecord("validate", <<"", "">>, <<>>, <<>>, None, r.ret, 1,
                                   r.attempts + (IF r.recreated THEN 1 ELSE 0))
    /\ prevOp' = lastOp
    /\ nops' = nops + 1
    /\ UNCHANGED <<storageOK, edits, last, last2, accessVars, resolveVars, watchVars, mainVars>>

StoreNext == GetConfig \/ ModifyConfig \/ MakeDefault \/ ValidateStored

(***************************************************************************)
(* The watcher thread, a foreground modify_config and the user's editor    *)
(***************************************************************************)
\* The file between open(path, 'w'), which truncates it, and the close that
\* flushes what config.write buffered: an empty file.
Truncated == [kind |-> "ok", secs |-> {}, opts |-> <<>>]

NoCfg == [secs |-> {}, opts |-> <<>>]
WIdle == [pc |-> "sleep", current_modified |-> 0, cfg |-> NoCfg, phase |-> "fill"]
FgIdle == [pc |-> "idle", cfg |-> NoCfg, key |-> <<>>, value |-> <<>>]
NoPoll == [valid |-> FALSE, existed |-> FALSE, differed |-> FALSE,
           validated |-> FALSE, ok |-> FALSE, kept |-> TRUE, stored |-> FALSE]
NoRace == [on |-> FALSE, key |-> <<>>, value |-> <<>>, setDone |-> FALSE,
           valDone |-> FALSE]

\* What modify_config is called with.
SetRequests == {<<"GUI", "stylesheet", <<"light_blue.xml">>>>}

\* Variant: the timestamp is stored whatever reload_config returned.
next_last_modified_always(reload_ok, current_modified, last_modified) ==
    current_modified

\* Variant: the timestamp is never stored.
next_last_modified_kept(reload_ok, current_modified, last_modified) == last_modified

\* "if reload_config_successfully: config_last_modified = current_modified"
next_last_modified(reload_ok, current_modified, last_modified) ==
    IF reload_ok THEN current_modified ELSE last_modified

\* The end of one pass of the watcher's loop.
FinishPoll(existed, validated, ok, current) ==
    /\ w' = WIdle
    /\ config_last_modified' =
           IF validated
           THEN next_last_modified(ok, current, config_last_modified)
           ELSE config_last_modified
    /\ poll' = [valid |-> TRUE, existed |-> existed,
                differed |-> (existed /\ current # config_last_modified),
                validated |-> validated, ok |-> ok,
                kept |-> (config_last_modified' = config_last_modified),
                stored |-> (config_last_modified' = current)]
    /\ prevFailed' = (poll.validated /\ ~poll.ok)
    /\ race' = IF ~validated THEN race
               ELSE IF ok /\ race.on THEN [race EXCEPT !.valDone = TRUE]
               ELSE NoRace

\* time.sleep(2) is over: the existence check, getmtime and the comparison.
WatcherPoll ==
    /\ w.pc = "sleep"
    /\ IF disk.kind = "missing"
       THEN FinishPoll(FALSE, FALSE, FALSE, 0)
       ELSE IF mtime = config_last_modified
       THEN FinishPoll(TRUE, FALSE, FALSE, mtime)
       ELSE /\ w' = [WIdle EXCEPT !.pc = "read", !.current_modified = mtime]
            /\ race' = IF fg.pc # "idle"
                       THEN [on |-> TRUE, key |-> fg.key, value |-> fg.value,
                             setDone |-> FALSE, valDone |-> FALSE]
                       ELSE NoRace
            /\ UNCHANGED <<config_last_modified, poll, prevFailed>>
    /\ UNCHANGED <<disk, mtime, storageOK, edits, last, last2, fg, torn, nops,
                   lastOp, prevOp, accessVars, resolveVars, mainVars>>

\* "--- Updating version (if necessary) ---" up to "if needs_save", in
\* memory: reading a stored version that raises configparser.Error ends
\* validate_config with True, and so does a document that needs no save; else
\* the second save is next.
AfterFill(cfg, needs_save) ==
    LET cur == cfg.opts[VersionKey]
        changed == cur # default_config[VersionKey]
    IN IF BadInterpolation(cur) \/ ~(needs_save \/ changed)
       THEN [pc |-> "done", cfg |-> cfg]
       ELSE [pc |-> "open",
             cfg |-> [cfg EXCEPT !.opts[VersionKey] = default_config[VersionKey]]]

\* validate_config up to its first open(cfg_file_path, 'w'): the default
\* document is written when none exists or the one there cannot be parsed,
\* the document is read and the missing sections and options are added in
\* memory; without a first save the version update follows at once.
WatcherRead ==
    /\ w.pc = "read"
    /\ LET d0 == IF disk.kind = "missing" THEN make_default(disk, storageOK) ELSE disk
           d1 == IF d0.kind = "corrupt" THEN make_default(d0, storageOK) ELSE d0
           cfg == Read(d1)
           nxt == AfterFill(fill_missing(cfg), FALSE)
       IN /\ disk' = d1
          /\ mtime' = IF d1 # disk THEN mtime + 1 ELSE mtime
          /\ torn' = (fg.pc = "flush")
          /\ IF d1.kind \in {"missing", "locked", "corrupt"}
             THEN FinishPoll(TRUE, TRUE, FALSE, w.current_modified)
             ELSE IF needs_save_after_fill(cfg)
             THEN /\ w' = [w EXCEPT !.cfg = fill_missing(cfg), !.phase = "fill",
                                    !.pc = "open"]
                  /\ UNCHANGED <<config_last_modified, poll, prevFailed, race>>
             ELSE IF nxt.pc = "done"
             THEN FinishPoll(TRUE, TRUE, TRUE, w.current_modified)
             ELSE /\ w' = [w EXCEPT !.cfg = nxt.cfg, !.phase = "version",
                                    !.pc = "open"]
                  /\ UNCHANGED <<config_last_modified, poll, prevFailed, race>>
    /\ UNCHANGED <<storageOK, edits, last, last2, fg, nops, lastOp, prevOp,
                   accessVars, resolveVars, mainVars>>

\* open(cfg_file_path, 'w') of either save: the file is truncated, or OSError
\* makes validate_config return False.
WatcherOpen ==
    /\ w.pc = "open"
    /\ IF CanWrite(disk, storageOK)
       THEN /\ disk' = Truncated
            /\ mtime' = mtime + 1
            /\ w' = [w EXCEPT !.pc = "flush"]
            /\ UNCHANGED <<config_last_modified, poll, prevFailed, race>>
       ELSE /\ FinishPoll(TRUE, TRUE, FALSE, w.current_modified)
            /\ UNCHANGED <<disk, mtime>>
    /\ UNCHANGED <<storageOK, edits, last, last2, fg, torn, nops, lastOp, prevOp,
                   accessVars, resolveVars, mainVars>>

\* config.write and the close of the "with" block; after the first save the
\* version update follows, after the second validate_config returns True.
WatcherFlush ==
    /\ w.pc = "flush"
    /\ disk' = Write(w.cfg)
    /\ mtime' = mtime + 1
    /\ LET nxt == AfterFill(w.cfg, TRUE)
       IN IF w.phase = "fill" /\ nxt.pc = "open"
          THEN /\ w' = [w EXCEPT !.cfg = nxt.cfg, !.phase = "version", !.pc = "open"]
               /\ UNCHANGED <<config_last_modified, poll, prevFailed, race>>
          ELSE FinishPoll(TRUE, TRUE, TRUE, w.current_modified)
    /\ UNCHANGED <<storageOK, edits, last, last2, fg, torn, nops, lastOp, prevOp,
                   accessVars, resolveVars, mainVars>>

\* modify_config up to config.set: config_file(), config.read (a document
\* that cannot be parsed raises configparser.Error and ends the call, one that
\* cannot be opened reads as empty), add_section and set, all in memory.
SetRead ==
    /\ fg.pc = "idle"
    /\ nops < MaxSets
    /\ nops' = nops + 1
    /\ \E rq \in SetRequests :
         LET d0 == config_file(disk, storageOK)
         IN /\ disk' = d0
            /\ mtime' = IF d0 # disk THEN mtime + 1 ELSE mtime
            /\ IF d0.kind = "corrupt"
               THEN fg' = FgIdle /\ race' = NoRace
               ELSE /\ fg' = [pc |-> "open", key |-> <<rq[1], rq[2]>>, value |-> rq[3],
                              cfg |-> SetParsed(ReadOrEmpty(d0), rq[1], rq[2], rq[3])]
                    /\ race' = IF w.pc # "sleep"
                               THEN [on |-> TRUE, key |-> <<rq[1], rq[2]>>,
                                     value |-> rq[3], setDone |-> FALSE,
                                     valDone |-> FALSE]
                               ELSE NoRace
    /\ torn' = (w.pc = "flush")
    /\ UNCHANGED <<storageOK, edits, last, last2, config_last_modified, w, poll,
                   prevFailed, lastOp, prevOp, accessVars, resolveVars, mainVars>>

\* modify_config's open(cfg_file_path, 'w'): OSError is logged and ends the call.
SetOpen ==
    /\ fg.pc = "open"
    /\ IF CanWrite(disk, storageOK)
       THEN /\ disk' = Truncated
            /\ mtime' = mtime + 1
            /\ fg' = [fg EXCEPT !.pc = "flush"]
            /\ race' = race
       ELSE /\ fg' = FgIdle
            /\ race' = NoRace
            /\ UNCHANGED <<disk, mtime>>
    /\ UNCHANGED <<storageOK, edits, last, last2, config_last_modified, w, poll,
                   prevFailed, torn, nops, lastOp, prevOp, accessVars, resolveVars, mainVars>>

\* modify_config's config.write and close.
SetFlush ==
    /\ fg.pc = "flush"
    /\ disk' = Write(fg.cfg)
    /\ mtime' = mtime + 1
    /\ fg' = FgIdle
    /\ race' = IF race.on THEN [race EXCEPT !.setDone = TRUE] ELSE race
    /\ UNCHANGED <<storageOK, edits, last, last2, config_last_modified, w, poll,
                   prevFailed, torn, nops, lastOp, prevOp, accessVars, resolveVars, mainVars>>

\* The user saves an edited document (an option deleted, an old version
\* written), deletes the document or puts one there that the process may not
\* open.
WatchEdit ==
    /\ edits < MaxWatchEdits
    /\ edits' = edits + 1
    /\ \/ /\ disk.kind = "ok"
          /\ <<"GUI", "stylesheet">> \in DOMAIN disk.opts
          /\ disk' = RemoveOption(disk, <<"GUI", "stylesheet">>)
       \/ /\ disk.kind = "ok"
          /\ disk' = SetOption(disk, "DEBUG", "version", <<"v1.7">>)
          /\ disk' # disk
       \/ /\ disk.kind \in {"ok", "locked"}
          /\ disk' = MissingDoc
       \/ /\ disk.kind = "ok"
          /\ disk' = LockedDoc
    /\ mtime' = mtime + 1
    /\ race' = NoRace
    /\ UNCHANGED <<storageOK, last, last2, config_last_modified, w, fg, poll,
                   prevFailed, torn, nops, lastOp, prevOp, accessVars, resolveVars, mainVars>>

\* The storage turns read-only, or writable again.
WatchToggle ==
    /\ edits < MaxWatchEdits
    /\ edits' = edits + 1
    /\ storageOK' = ~storageOK
    /\ UNCHANGED <<disk, mtime, last, last2, config_last_modified, w, fg, poll,
                   prevFailed, race, torn, nops, lastOp, prevOp, accessVars,
                   resolveVars, mainVars>>

WatchNext ==
    \/ WatcherPoll \/ WatcherRead \/ WatcherOpen \/ WatcherFlush
    \/ SetRead \/ SetOpen \/ SetFlush
    \/ WatchEdit \/ WatchToggle

\* The watcher thread's next step, whichever it is.
Watcher == WatcherPoll \/ WatcherRead \/ WatcherOpen \/ WatcherFlush

\* The watcher and the user's editor, without foreground calls.
WatchFairNext ==
    \/ WatcherPoll \/ WatcherRead \/ WatcherOpen \/ WatcherFlush
    \/ WatchEdit \/ WatchToggle

\* No watcher thread and no foreground call.
WatchIdle ==
    /\ mtime = 0
    /\ config_last_modified = 0
    /\ w = WIdle
    /\ fg = FgIdle
    /\ poll = NoPoll
    /\ prevFailed = FALSE
    /\ race = NoRace
    /\ torn = FALSE

\* setup_config_watcher() after main() validated the document: the watcher
\* starts with the modification time of a complete document.
WatchInit ==
    /\ disk = DefaultDoc
    /\ storageOK = TRUE
    /\ edits = 0
    /\ last = NoRun
    /\ last2 = NoRun2
    /\ mtime = 1
    /\ config_last_modified = mtime
    /\ w = WIdle
    /\ fg = FgIdle
    /\ poll = NoPoll
    /\ prevFailed = FALSE
    /\ race = NoRace
    /\ torn = FALSE

(***************************************************************************)
(* Target resolution under every policy                                    *)
(***************************************************************************)
ResolvePaths == InputPaths \cup {SubDir, ToolExe, Pipe}
AcceptedTexts == {<<".exe">>, <<".exe", Comma, Space, ".txt">>, <<".ex">>, <<".dll">>, <<>>}
BlacklistTexts == {<<>>, <<"app">>, <<"tool", Comma, "sub">>}

NoRes == [path |-> "", accepted |-> <<>>, blacklist |-> <<>>, recursive |-> "",
          gui |-> FALSE, done |-> FALSE, files |-> <<>>, notices |-> <<>>]

ResolveInit ==
    \E p \in ResolvePaths, a \in AcceptedTexts, b \in BlacklistTexts,
       r \in Recursive, g \in BOOLEAN :
        res = [NoRes EXCEPT !.path = p, !.accepted = a, !.blacklist = b,
                            !.recursive = r, !.gui = g]

\* One call of _gather_target_files in a process whose document held
\* res.accepted and res.blacklist when cmdWorker was imported.
Resolve ==
    /\ ~res.done
    /\ LET r == gather(res.path, res.recursive, get_allowed_types(res.accepted),
                       Range(split_comma(res.blacklist)), res.gui)
       IN res' = [res EXCEPT !.done = TRUE, !.files = r.files, !.notices = r.notices]
    /\ UNCHANGED <<accessVars, configVars, listVars, watchVars, mainVars>>

(***************************************************************************)
(* A running process: the policy cmdWorker reads when it is imported, the  *)
(* changes of the document, and target resolution with its reads and write *)
(* of FILETYPE.recursive                                                   *)
(***************************************************************************)
\* The value of a call, named before the next call uses it.
TheValue(S) == CHOOSE x \in S : TRUE

\* The two "get_config("FILETYPE", "recursive") == ..." tests of
\* path_foreach_in and the modify_config of its else branch: the way the
\* directory is enumerated and the document the calls leave.
path_foreach_in_store(d, sok) ==
    TheValue({
        IF g1.ret = Value(<<"True">>)
        THEN [recursive |-> "True", after |-> g1.after]
        ELSE TheValue({
                 IF g2.ret = Value(<<"False">>)
                 THEN [recursive |-> "False", after |-> g2.after]
                 ELSE [recursive |-> "True",
                       after |-> modify_config(g2.after, sok, "FILETYPE", "recursive",
                                               <<"True">>).after]
                 : g2 \in {get_config(g1.after, sok, "FILETYPE", "recursive", <<>>)}})
        : g1 \in {get_config(d, sok, "FILETYPE", "recursive", <<>>)}})

\* ignoredFiles = get_config("FILETYPE", "blacklisted_names").split(",") and
\* allowedTypes = get_allowed_types(), evaluated once, at import: the texts
\* read and the document the two get_config calls leave.
import_cmdWorker(d, sok) ==
    TheValue({
        TheValue({
            [blacklist |-> g1.ret.value, accepted |-> g2.ret.value, after |-> g2.after]
            : g2 \in {get_config(g1.after, sok, "FILETYPE", "accepted_types", <<>>)}})
        : g1 \in {get_config(d, sok, "FILETYPE", "blacklisted_names", <<>>)}})

\* What is changed while processes run.
PolicyStems == {<<"app">>, <<"tool">>}
PolicyTypes == {<<".txt">>, <<".exe", Comma, Space, ".txt">>}
RecursiveTexts == {<<"False">>, <<"maybe">>, <<"50%">>}
PolicyPaths == {AppsDir, AppExe, ToolExe}

PolicyInit ==
    /\ disk = DefaultDoc
    /\ storageOK \in BOOLEAN
    /\ edits = 0
    /\ last = NoRun
    /\ last2 = NoRun2
    /\ res = NoRes
    /\ ListIdle

\* A process starts: cmdWorker is imported.
ImportCmdWorker ==
    /\ \E p \in PolicyPaths :
         LET r == import_cmdWorker(disk, storageOK)
         IN /\ res' = [NoRes EXCEPT !.path = p, !.accepted = r.accepted,
                                    !.blacklist = r.blacklist, !.gui = TRUE]
            /\ disk' = r.after
    /\ UNCHANGED <<storageOK, edits, last, last2, listVars, accessVars, watchVars, mainVars>>

\* append_config("FILETYPE", "blacklisted_names", [stem])
PolicyAppend ==
    /\ nops < MaxPolicyOps
    /\ \E stem \in PolicyStems :
         disk' = append_config(disk, storageOK, "FILETYPE", "blacklisted_names",
                               <<stem>>).after
    /\ nops' = nops + 1
    /\ UNCHANGED <<storageOK, edits, last, last2, lastOp, prevOp, res, accessVars,
                   watchVars, mainVars>>

\* modify_config("FILETYPE", "accepted_types", text)
PolicyModify ==
    /\ nops < MaxPolicyOps
    /\ \E text \in PolicyTypes :
         disk' = modify_config(disk, storageOK, "FILETYPE", "accepted_types", text).after
    /\ nops' = nops + 1
    /\ UNCHANGED <<storageOK, edits, last, last2, lastOp, prevOp, res, accessVars,
                   watchVars, mainVars>>

\* The user edits FILETYPE.recursive or FILETYPE.accepted_types in the
\* document, or deletes FILETYPE.recursive; the watcher's poll that follows
\* calls validate_config.
PolicyEdit ==
    /\ nops < MaxPolicyOps
    /\ disk.kind = "ok"
    /\ \E d \in {SetOption(disk, "FILETYPE", "recursive", t) : t \in RecursiveTexts}
               \cup {SetOption(disk, "FILETYPE", "accepted_types", t) : t \in PolicyTypes}
               \cup {RemoveOption(disk, <<"FILETYPE", "recursive">>)} :
         disk' \in {d, validate_config(d, storageOK).after}
    /\ nops' = nops + 1
    /\ UNCHANGED <<storageOK, edits, last, last2, lastOp, prevOp, res, accessVars,
                   watchVars, mainVars>>

\* One call of _gather_target_files in the process.
ResolveStored ==
    /\ res.path # ""
    /\ ~res.done
    /\ LET pfi == path_foreach_in_store(disk, storageOK)
           r == gather(res.path, pfi.recursive, get_allowed_types(res.accepted),
                       Range(split_comma(res.blacklist)), res.gui)
       IN /\ res' = [res EXCEPT !.done = TRUE, !.files = r.files, !.notices = r.notices,
                                !.recursive = IF is_dir(res.path) THEN pfi.recursive
                                              ELSE ""]
          /\ disk' = IF is_dir(res.path) THEN pfi.after ELSE disk
    /\ UNCHANGED <<storageOK, edits, last, last2, listVars, accessVars, watchVars, mainVars>>

PolicyNext == ImportCmdWorker \/ PolicyAppend \/ PolicyModify \/ PolicyEdit
              \/ ResolveStored

AccessInit ==
    /\ rules = {}
    /\ pc = "idle"
    /\ req = NoReq
    /\ target_files = <<>>
    /\ idx = 1
    /\ all_ok = TRUE
    /\ result = "none"
    /\ exitMsg = "none"
    /\ executed = <<>>
    /\ elev = <<>>
    /\ fileFailed = {}
    /\ touched = NoTouch
    /\ calls = 0
    /\ prev = NoPrev
    /\ rulesBefore = {}

ConfigInit ==
    /\ disk \in {MissingDoc, DefaultDoc}
    /\ storageOK = TRUE
    /\ edits = 0
    /\ last = NoRun
    /\ last2 = NoRun2

Init == AccessInit /\ MainIdle /\ disk = DefaultDoc /\ storageOK = TRUE /\ edits = 0
        /\ last = NoRun /\ last2 = NoRun2 /\ res = NoRes /\ ListIdle /\ WatchIdle

Next == AccessNext

Spec == Init /\ [][Next]_vars

InitConfig == AccessInit /\ MainIdle /\ ConfigInit /\ res = NoRes /\ ListIdle /\ WatchIdle

NextConfig == ConfigNext

SpecConfig == InitConfig /\ [][NextConfig]_vars

InitResolve == AccessInit /\ MainIdle /\ disk = DefaultDoc /\ storageOK = TRUE /\ edits = 0
               /\ last = NoRun /\ last2 = NoRun2 /\ ResolveInit /\ ListIdle /\ WatchIdle

NextResolve == Resolve

SpecResolve == InitResolve /\ [][NextResolve]_vars

InitList == AccessInit /\ MainIdle /\ ListInit /\ res = NoRes /\ WatchIdle

NextList == ListNext

SpecList == InitList /\ [][NextList]_vars

InitStore == AccessInit /\ MainIdle /\ StoreInit /\ res = NoRes /\ WatchIdle

NextStore == StoreNext

SpecStore == InitStore /\ [][NextStore]_vars

InitMain == AccessInit /\ MainIdle /\ disk = DefaultDoc /\ storageOK = TRUE /\ edits = 0
            /\ last = NoRun /\ last2 = NoRun2 /\ res = NoRes /\ ListIdle /\ WatchIdle

NextMain == MainNext

SpecMain == InitMain /\ [][NextMain]_vars

InitPolicy == AccessInit /\ MainIdle /\ PolicyInit /\ WatchIdle

NextPolicy == PolicyNext

SpecPolicy == InitPolicy /\ [][NextPolicy]_vars

InitWatch == AccessInit /\ MainIdle /\ WatchInit /\ res = NoRes /\ ListIdle

NextWatchFair == WatchFairNext

\* The watcher is a daemon thread whose loop never ends ("while True" with
\* every exception caught inside): the scheduler lets it take its next step.
SpecWatchFair == InitWatch /\ [][NextWatchFair]_vars /\ WF_vars(Watcher)

NextWatch == WatchNext

SpecWatch == InitWatch /\ [][NextWatch]_vars

(***************************************************************************)
(* Claims about access_handler (checked under Spec)                        *)
(***************************************************************************)
Returned == pc = "done" /\ touched.built
EnvOk == \A i \in DOMAIN executed : executed[i].env
Failed(f) == \E i \in DOMAIN executed : executed[i].file = f /\ ~executed[i].ok
Attempted(f, d) == \E i \in DOMAIN executed : executed[i].file = f /\ executed[i].dir = d
Directions(rt) == IF rt = "both" THEN {"in", "out"} ELSE {rt}
Targets == {target_files[i] : i \in DOMAIN target_files}
Launched == \E i \in DOMAIN elev : elev[i] = "launched"

\* C1: no firewall command is executed by a non-elevated process, and after
\* a successful relaunch request the process has exited without having
\* executed any command.
C1_NoUnelevatedCommand ==
    /\ executed # <<>> => req.isAdmin
    /\ Launched => pc = "exited" /\ exitMsg = "Admin re-run" /\ executed = <<>>

C1_Witness ==
    /\ Launched
    /\ pc = "exited"
    /\ Len(target_files) >= 2

\* C2: a call that ran its per-file loop returns "Operation completed" iff
\* every attempted command succeeded, and "Operation failed for some files"
\* if any command failed.
C2_CompletedIffAllSucceeded ==
    Returned =>
        /\ result = "Operation completed" <=> AllOk(executed)
        /\ ~AllOk(executed) => result = "Operation failed for some files"

\* What the code keeps of C2: it holds of every call of an elevated process.
CompletedIffAllSucceededWhenElevated ==
    req.isAdmin => C2_CompletedIffAllSucceeded

\* C3: a failed command never short-circuits the run.  In an elevated call
\* with a valid action every file already passed by the loop has had every
\* direction attempted, a file counts as failed iff one of its commands
\* failed, and a call that returns after a failure returns partial failure.
C3_NoShortCircuit ==
    (pc \in {"loop", "done"} /\ req.isAdmin /\ req.action \in {"allow", "deny"}) =>
        /\ \A i \in 1..(idx - 1) : \A d \in Directions(req.rule_type) :
               Attempted(target_files[i], d)
        /\ \A f \in Targets : f \in fileFailed <=> Failed(f)
        /\ (pc = "done" /\ touched.built) => idx = Len(target_files) + 1
        /\ (pc = "done" /\ ~AllOk(executed)) =>
               result = "Operation failed for some files"

C3_Witness ==
    /\ pc = "done"
    /\ req.rule_type = "both"
    /\ Len(target_files) >= 2
    /\ Len(executed) = 2 * Len(target_files)
    /\ ~executed[1].ok
    /\ executed[2].ok
    /\ result = "Operation failed for some files"

\* C4: with a rule type outside {in, out, both} the call stops at rule-type
\* validation: no path check or enumeration, no command built, no privilege
\* check, no elevation request and no firewall command.
C4_InvalidRuleTypeStops ==
    (pc # "idle" /\ req.rule_type \notin {"in", "out", "both"}) =>
        /\ pc \in {"validate", "exited"}
        /\ touched = NoTouch
        /\ target_files = <<>>
        /\ elev = <<>>
        /\ executed = <<>>
        /\ rules = rulesBefore

C4_Witness ==
    /\ req.rule_type = "sideways"
    /\ pc = "exited"
    /\ exitMsg = "0"
    /\ exists(req.path)

\* C5: allow for files that have no matching rule is a success: the rule set
\* is unchanged and the call reports "Operation completed".
C5_AllowWithoutRuleSucceeds ==
    (/\ pc = "done"
     /\ req.action = "allow"
     /\ req.isAdmin
     /\ EnvOk
     /\ target_files # <<>>
     /\ \A f \in Targets : \A r \in rulesBefore : r.program # f)
    => /\ result = "Operation completed"
       /\ rules = rulesBefore

\* C6: deny followed by allow with the same path and rule type restores the
\* rule set from before the deny, given that no rule for the target files
\* existed then (and netsh itself did not fail during the allow).
C6_AllowUndoesDeny ==
    (/\ pc = "done"
     /\ req.action = "allow"
     /\ req.isAdmin
     /\ EnvOk
     /\ prev.valid
     /\ prev.path = req.path
     /\ prev.rule_type = req.rule_type
     /\ prev.recursive = req.recursive
     /\ \A f \in Targets : \A r \in prev.rulesBefore : r.program # f)
    => /\ rules = prev.rulesBefore
       /\ result = "Operation completed"

C6_Witness ==
    /\ pc = "done"
    /\ req.action = "allow"
    /\ req.rule_type = "both"
    /\ prev.valid
    /\ prev.path = req.path
    /\ prev.rule_type = req.rule_type
    /\ prev.recursive = req.recursive
    /\ Len(target_files) >= 2
    /\ Len(executed) = 2 * Len(target_files)
    /\ rules = prev.rulesBefore
    /\ rulesBefore # rules

\* C7: when the elevation request fails or is declined, the caller gets an
\* elevation error, the operation aborts (no further file is tried), no
\* command is executed, and the process does not exit as if it had handed
\* over to an elevated process.
C7_ElevationFailureReported ==
    (\E i \in DOMAIN elev : elev[i] \in {"declined", "raised"}) =>
        /\ exitMsg # "Admin re-run"
        /\ Len(elev) = 1
        /\ executed = <<>>
        /\ pc = "done" =>
               result \notin {"Operation completed", "Operation failed for some files"}

\* The part of C7 the code keeps: a non-elevated call executes no command.
DeclinedRunsNothing ==
    (\E i \in DOMAIN elev : elev[i] \in {"declined", "raised"}) => executed = <<>>

(***************************************************************************)
(* Claims about validate_config (checked under SpecConfig)                 *)
(***************************************************************************)
HasDefaultSchema(d) ==
    /\ d.kind = "ok"
    /\ DefaultSections \subseteq d.secs
    /\ DOMAIN default_config \subseteq DOMAIN d.opts

\* C8: whenever validate_config returns true, the persisted document holds
\* every section and key of the default schema and DEBUG.version is the
\* compiled-in version.
C8_ValidatedIsCompleteAndCurrent ==
    (last.valid /\ last.ret) =>
        /\ HasDefaultSchema(disk)
        /\ disk.opts[VersionKey] = default_config[VersionKey]

\* What the code keeps of C8: the schema is complete, and the version is
\* current unless reading the stored version raises.
ValidatedIsComplete ==
    (last.valid /\ last.ret) =>
        /\ HasDefaultSchema(disk)
        /\ \/ disk.opts[VersionKey] = default_config[VersionKey]
           \/ BadInterpolation(disk.opts[VersionKey])

\* C9: on a parseable document validate_config is additive-only: every
\* section and key present before the call is present after it (keys as
\* configparser reads them), with its value unchanged unless it is
\* DEBUG.version.
C9_AdditiveOnly ==
    (last.valid /\ last.before.kind = "ok") =>
        /\ disk.kind = "ok"
        /\ last.before.secs \subseteq disk.secs
        /\ \A p \in DOMAIN Read(last.before).opts :
             /\ p \in DOMAIN Read(disk).opts
             /\ p # VersionKey => Read(disk).opts[p] = Read(last.before).opts[p]

C9_Witness ==
    /\ last.valid
    /\ last.ret
    /\ last.before.kind = "ok"
    /\ last.inserted
    /\ last.verChanged
    /\ "USER" \in last.before.secs
    /\ disk # last.before

\* C10: validate_config opens the document for writing (after its
\* structure check is reached) iff it inserted a section or key or changed
\* the version; a run directly after a successful run writes nothing and
\* leaves the document as it was.
C10_WritesIffDirty ==
    /\ (last.valid /\ last.reached) =>
           (last.attempts > 0 <=> (last.inserted \/ last.verChanged))
    /\ (last.valid /\ last2.valid /\ last2.ret) =>
           /\ last.attempts = 0
           /\ ~last.recreated
           /\ disk = last.before

C10_Witness ==
    /\ last.valid
    /\ last2.valid
    /\ last2.ret
    /\ last.ret
    /\ last.before # DefaultDoc
    /\ "USER" \in disk.secs

(***************************************************************************)
(* Claims about target resolution (C13, C14, C16 checked under             *)
(* SpecResolve, C15 under Spec)                                            *)
(***************************************************************************)
Accepted == get_allowed_types(res.accepted)
Blacklisted == Range(split_comma(res.blacklist))
Passes(f) == /\ <<Stem[f]>> \notin Blacklisted
             /\ \E a \in Accepted : Contains(a, Suffix[f])
Enumerated == IF res.recursive = "False"
              THEN {f \in DOMAIN Parent : Parent[f] = res.path}
              ELSE {f \in DOMAIN Parent : Under(f, res.path)}

\* C13: for a single file the result is that file iff its stem is not
\* blacklisted and some accepted suffix occurs within its suffix; for a
\* directory the result is exactly the enumerated regular files that pass the
\* same rule; the directory holding app.exe and app.txt, with accepted_types
\* ".exe", an empty blacklist and recursive False, yields exactly [app.exe].
C13_FilterIsExact ==
    res.done =>
        /\ is_file(res.path) =>
               res.files = IF Passes(res.path) THEN <<res.path>> ELSE <<>>
        /\ is_dir(res.path) =>
               Range(res.files) = {f \in Enumerated \cap RegularFiles : Passes(f)}
        /\ (/\ res.path = SubDir
            /\ res.accepted = <<".exe">>
            /\ res.blacklist = <<>>
            /\ res.recursive = "False") => res.files = <<SubAppExe>>

C13_Witness ==
    /\ res.done
    /\ res.path = AppsDir
    /\ res.accepted = <<".exe", Comma, Space, ".txt">>
    /\ res.blacklist = <<"tool", Comma, "sub">>
    /\ res.recursive = "True"
    /\ Range(res.files) = {AppExe, AppTxt, SubAppExe, SubAppTxt}

\* C14: with recursive "False" the result for a directory holds only files
\* directly inside that directory, also when a file in a subdirectory passes
\* the filter.
C14_NonRecursiveStaysInDirectory ==
    (res.done /\ res.recursive = "False" /\ is_dir(res.path)) =>
        \A f \in Range(res.files) : Parent[f] = res.path

C14_Witness ==
    /\ res.done
    /\ res.recursive = "False"
    /\ res.path = AppsDir
    /\ Passes(SubAppExe)
    /\ Range(res.files) = {AppExe, ToolExe}

\* C15: the files resolved for a directory are in ascending order of creation
\* time, and the firewall commands are run for the files in that order.
C15_CreationTimeOrder ==
    (pc \in {"loop", "done"} /\ is_dir(req.path)) =>
        /\ \A i, j \in DOMAIN target_files :
               i < j => Ctime[target_files[i]] <= Ctime[target_files[j]]
        /\ \A i, j \in DOMAIN executed :
               i < j => Ctime[executed[i].file] <= Ctime[executed[j].file]

C15_Witness ==
    /\ pc = "done"
    /\ req.path = AppsDir
    /\ req.recursive = "True"
    /\ target_files = <<ToolExe, AppExe, SubAppExe>>
    /\ Len(executed) = 6
    /\ executed[1].file = ToolExe
    /\ executed[6].file = SubAppExe

MissingNotices == {"Path type does not exist", "Path doesn't exist"}

\* C16: every resolution that yields no target shows the user an explanation,
\* and the one for a missing path is not the one for an existing path with
\* nothing eligible.
C16_EveryFailureExplained ==
    (res.done /\ res.files = <<>>) =>
        /\ res.notices # <<>>
        /\ \A i \in DOMAIN res.notices :
               res.notices[i] \in MissingNotices <=> ~exists(res.path)

\* What the code keeps of C16: a missing path, a directory with nothing
\* eligible and a path that is neither file nor directory are explained.
FailureExplainedUnlessSingleFile ==
    (res.done /\ res.files = <<>> /\ ~is_file(res.path)) =>
        /\ Len(res.notices) = 1
        /\ res.notices[1] \in MissingNotices <=> ~exists(res.path)

(***************************************************************************)
(* Claims about append_config and remove_config (checked under SpecList)   *)
(***************************************************************************)
\* The elements of the comma-separated list a document holds under the key.
Elements(d) ==
    IF d.kind = "ok" /\ ListKey \in DOMAIN Read(d).opts
    THEN stripped_items(split_comma(Read(d).opts[ListKey]))
    ELSE <<>>

Given(op) == {strip(op.values[i]) : i \in DOMAIN op.values}
NoDuplicates(q) == \A i, j \in DOMAIN q : q[i] = q[j] => i = j
HasComma(t) == \E i \in DOMAIN t : t[i] = Comma
SameAppendTwice ==
    /\ lastOp.op = "append"
    /\ prevOp.op = "append"
    /\ prevOp.ret
    /\ lastOp.values = prevOp.values

\* C17: a second append_config with the same values adds nothing: it leaves
\* the document as it was and writes nothing; and an append_config writes only
\* if some given value was not yet an element of the list.
C17_SecondAppendIsNoOp ==
    /\ SameAppendTwice => (lastOp.writes = 0 /\ disk = lastOp.before)
    /\ (lastOp.op = "append" /\ lastOp.writes > 0) =>
           \E v \in Given(lastOp) : v \notin Range(Elements(lastOp.before))

\* What the code keeps of C17: it holds of values without a comma.
SecondAppendIsNoOpWithoutComma ==
    (SameAppendTwice /\ \A v \in Given(lastOp) : ~HasComma(v)) =>
        (lastOp.writes = 0 /\ disk = lastOp.before)

RemovesOneElement ==
    /\ lastOp.op = "remove"
    /\ lastOp.before.kind = "ok"
    /\ lastOp.canWrite
    /\ Len(lastOp.values) = 1
    /\ NoDuplicates(Elements(lastOp.before))
    /\ Given(lastOp) \subseteq Range(Elements(lastOp.before))

\* C18: remove_config with a value that is an element of the stored list
\* removes it, keeps the other elements in their order and writes the document
\* exactly once, whether or not the stored list has spaces after its commas.
C18_RemoveTakesElementOut ==
    RemovesOneElement =>
        /\ lastOp.writes = 1
        /\ Elements(disk) =
               SelectSeq(Elements(lastOp.before), LAMBDA x : x \notin Given(lastOp))

\* What the code keeps of C18: it holds of a list stored the way
\* append_config and remove_config write it.
RemoveTakesElementOutOfSpacedList ==
    (/\ RemovesOneElement
     /\ Read(lastOp.before).opts[ListKey] = join_comma_space(Elements(lastOp.before)))
    => /\ lastOp.writes = 1
       /\ Elements(disk) =
              SelectSeq(Elements(lastOp.before), LAMBDA x : x \notin Given(lastOp))

RemovesNothingPresent ==
    /\ lastOp.op = "remove"
    /\ \A v \in Given(lastOp) : v \notin Range(Elements(lastOp.before))

\* C19: remove_config with values none of which is an element of the list
\* writes nothing and leaves the store as it was, whatever the store's state
\* (key missing and document missing included).
C19_RemoveAbsentWritesNothing ==
    RemovesNothingPresent => (lastOp.writes = 0 /\ disk = lastOp.before)

\* What the code keeps of C19: it holds when the document exists and the
\* values have no comma.
RemoveAbsentWritesNothingIfPresent ==
    (/\ RemovesNothingPresent
     /\ lastOp.before.kind # "missing"
     /\ \A v \in Given(lastOp) : ~HasComma(v))
    => (lastOp.writes = 0 /\ disk = lastOp.before)

\* True == 1 and False == 0
AsNumber(b) == IF b THEN 1 ELSE 0

\* C20: a call that ends without an error returns the number of values it
\* added (append_config) or removed (remove_config), 0 when nothing changed.
C20_ReturnsCount ==
    (lastOp.op # "none" /\ ~lastOp.raised) => AsNumber(lastOp.ret) = lastOp.count

\* What the code returns: False from an except branch and when remove_config
\* finds no document or no key, True otherwise.
ReturnsSuccessFlag ==
    lastOp.op # "none" =>
        /\ lastOp.raised => ~lastOp.ret
        /\ (lastOp.ret /\ lastOp.before.kind = "ok") =>
               lastOp.writes = (IF lastOp.count > 0 THEN 1 ELSE 0)

\* The elements two lists share, in the order of the first.
Surviving(q, r) == SelectSeq(q, LAMBDA x : x \in Range(r))

\* C21: a list without duplicates stays without duplicates under any sequence
\* of append_config and remove_config calls, and the elements a call leaves in
\* the list keep their relative order.
C21_UniqueAndOrdered ==
    /\ NoDuplicates(Elements(disk))
    /\ lastOp.op # "none" =>
           Surviving(Elements(disk), Elements(lastOp.before))
               = Surviving(Elements(lastOp.before), Elements(disk))

\* What the code keeps of C21: it holds as long as no value with a comma was
\* appended.
UniqueAndOrderedWithoutComma ==
    (\A op \in {lastOp, prevOp} : \A v \in Given(op) : ~HasComma(v)) =>
        /\ NoDuplicates(Elements(disk))
        /\ lastOp.op # "none" =>
               Surviving(Elements(disk), Elements(lastOp.before))
                   = Surviving(Elements(lastOp.before), Elements(disk))

(***************************************************************************)
(* Claims about get_config, modify_config and make_default (checked under  *)
(* SpecStore)                                                              *)
(***************************************************************************)
AskedKey == <<lastOp.section, Lower(lastOp.variable)>>
OnDisk == AskedKey \in DOMAIN Read(lastOp.before).opts
InSchema == AskedKey \in DOMAIN default_config
PlainGet == lastOp.op = "get" /\ lastOp.extra_args = <<>> /\ lastOp.before.kind = "ok"

\* C22: on a readable document get_config(section, key) returns the
\* document's value when the key is in the document; the default-schema
\* value, after one validate_config call, when the key is only in the default
\* schema; and None, never a value, when the key is in neither.
C22_GetReturnsDocumentOrDefault ==
    PlainGet =>
        /\ OnDisk => lastOp.ret = Value(Read(lastOp.before).opts[AskedKey])
        /\ (~OnDisk /\ InSchema) =>
               (lastOp.ret = Value(default_config[AskedKey]) /\ lastOp.validations = 1)
        /\ (~OnDisk /\ ~InSchema) => lastOp.ret = None

\* What the code keeps of C22: it holds unless the document's value has a
\* '%' that is no interpolation.
GetReturnsDocumentOrDefaultUnlessPercent ==
    (PlainGet /\ ~(OnDisk /\ BadInterpolation(Read(lastOp.before).opts[AskedKey]))) =>
        /\ OnDisk => lastOp.ret = Value(Read(lastOp.before).opts[AskedKey])
        /\ (~OnDisk /\ InSchema) =>
               (lastOp.ret = Value(default_config[AskedKey]) /\ lastOp.validations = 1)
        /\ (~OnDisk /\ ~InSchema) => lastOp.ret = None

IndexedGet ==
    /\ lastOp.op = "get"
    /\ lastOp.extra_args # <<>>
    /\ lastOp.before.kind = "ok"
    /\ ~(OnDisk /\ BadInterpolation(Read(lastOp.before).opts[AskedKey]))

\* The list get_config(section, key) stands for: the document's value, or the
\* default schema's when the document lacks the key, split on ", ".
AskedList ==
    IF OnDisk THEN split_comma_space(Read(lastOp.before).opts[AskedKey])
    ELSE IF InSchema THEN split_comma_space(default_config[AskedKey])
    ELSE <<>>

AskedIndex == int(join_args(lastOp.extra_args))

\* C23: get_config(section, key, i) returns element i of the value split on
\* ", " when i is an integer with 0 <= i < length, and None otherwise (index
\* out of bounds or no integer), also when the key had to be restored from
\* the default schema during the call.
C23_IndexedGetReturnsElementOrError ==
    IndexedGet =>
        IF AskedIndex.ok /\ AskedIndex.n \in 0..(Len(AskedList) - 1)
        THEN lastOp.ret = Value(AskedList[AskedIndex.n + 1])
        ELSE lastOp.ret = None

\* What the code keeps of C23: it holds of an index given as a str that is
\* not negative, for a key the document holds.
IndexedGetOfStoredKeyByText ==
    (/\ IndexedGet
     /\ OnDisk
     /\ ~JoinRaises(lastOp.extra_args)
     /\ (AskedIndex.ok => AskedIndex.n >= 0))
    => IF AskedIndex.ok /\ AskedIndex.n \in 0..(Len(AskedList) - 1)
       THEN lastOp.ret = Value(AskedList[AskedIndex.n + 1])
       ELSE lastOp.ret = None

SetKey(op) == <<op.section, Lower(op.variable)>>
GetAfterSet ==
    /\ prevOp.op = "modify"
    /\ lastOp.op = "get"
    /\ lastOp.extra_args = <<>>
    /\ SetKey(lastOp) = SetKey(prevOp)

\* The other keys of a document, as config.read sees them.
OtherOptions(d, key) ==
    [q \in DOMAIN ReadOrEmpty(d).opts \ {key} |-> ReadOrEmpty(d).opts[q]]

\* C24: modify_config(section, key, value) leaves the section in the
\* document, has written the document when it returns, leaves every other
\* section and key of an existing document as it was, and the get_config of
\* the same key that follows returns value.
C24_SetThenGet ==
    /\ lastOp.op = "modify" =>
           /\ lastOp.writes >= 1
           /\ lastOp.section \in ReadOrEmpty(disk).secs
           /\ lastOp.before.kind = "ok" =>
                  /\ OtherOptions(disk, SetKey(lastOp)) = OtherOptions(lastOp.before, SetKey(lastOp))
                  /\ ReadOrEmpty(disk).secs \ {lastOp.section} = lastOp.before.secs \ {lastOp.section}
    /\ GetAfterSet => lastOp.ret = Value(prevOp.value)

\* What the code keeps of C24: it holds of a value without a stray '%', on a
\* document that can be parsed and written.
SetThenGetIfStorable ==
    /\ (/\ lastOp.op = "modify"
        /\ lastOp.before.kind \in {"ok", "missing"}
        /\ lastOp.canWrite
        /\ ~BadInterpolation(lastOp.value)) =>
           /\ lastOp.writes >= 1
           /\ lastOp.section \in ReadOrEmpty(disk).secs
           /\ lastOp.before.kind = "ok" =>
                  /\ OtherOptions(disk, SetKey(lastOp)) = OtherOptions(lastOp.before, SetKey(lastOp))
                  /\ ReadOrEmpty(disk).secs \ {lastOp.section} = lastOp.before.secs \ {lastOp.section}
    /\ (/\ GetAfterSet
        /\ prevOp.before.kind \in {"ok", "missing"}
        /\ prevOp.canWrite
        /\ ~BadInterpolation(prevOp.value)) => lastOp.ret = Value(prevOp.value)

CreatedDefault(op) ==
    /\ op.op = "make_default"
    /\ op.before.kind = "missing"
    /\ op.canWrite

\* C25: make_default on a missing document (the storage being writable)
\* leaves a document with exactly the default schema's sections, keys and
\* values, and the validate_config that follows returns True, writes nothing
\* and leaves the document as it is.
C25_DefaultIsValid ==
    /\ CreatedDefault(lastOp) =>
           /\ disk.kind = "ok"
           /\ disk.secs = DefaultSections
           /\ disk.opts = default_config
           /\ lastOp.writes = 1
    /\ (lastOp.op = "validate" /\ CreatedDefault(prevOp)) =>
           /\ lastOp.flag
           /\ lastOp.writes = 0
           /\ disk = lastOp.before

C25_Witness ==
    /\ lastOp.op = "validate"
    /\ CreatedDefault(prevOp)
    /\ lastOp.flag
    /\ lastOp.writes = 0
    /\ disk = DefaultDoc

(***************************************************************************)
(* Claims about the watcher and concurrent store calls (checked under      *)
(* SpecWatch)                                                              *)
(***************************************************************************)
\* C11: a watcher-triggered validate_config and a foreground modify_config
\* are atomic with respect to each other: no read sees the document between
\* the other's open for writing and its close, and once an overlapping pair
\* has completed the document holds the value modify_config wrote and every
\* key of the default schema.
C11_SetAndValidationAtomic ==
    /\ ~torn
    /\ (race.on /\ race.setDone /\ race.valDone) =>
           /\ HasDefaultSchema(disk)
           /\ race.key \in DOMAIN Read(disk).opts
           /\ Read(disk).opts[race.key] = race.value

\* The lost update alone, apart from torn reads.
NoLostUpdate ==
    (race.on /\ race.setDone /\ race.valDone /\ disk.kind = "ok") =>
        /\ race.key \in DOMAIN Read(disk).opts
        /\ Read(disk).opts[race.key] = race.value

\* C12 as stated: a poll runs validate_config iff the document's time differs
\* from the last-seen one, the last-seen time changes only by a validation
\* that returned True and is kept when it returned False, and the poll
\* after a failed validation runs validate_config again.
C12_FailedValidationRetried ==
    poll.valid =>
        /\ poll.validated <=> poll.differed
        /\ ~poll.kept => (poll.validated /\ poll.ok /\ poll.stored)
        /\ (poll.validated /\ ~poll.ok) => poll.kept
        /\ prevFailed => poll.validated

\* C12: as above, with the retry holding of a poll that finds the document
\* in place: a poll that finds no document compares nothing and validates
\* nothing.
C12_FailedValidationRetriedIfPresent ==
    poll.valid =>
        /\ poll.existed => (poll.validated <=> poll.differed)
        /\ ~poll.existed => (~poll.validated /\ poll.kept)
        /\ ~poll.kept => (poll.validated /\ poll.ok /\ poll.stored)
        /\ (poll.validated /\ ~poll.ok) => poll.kept
        /\ (prevFailed /\ poll.existed) => poll.validated

C12_Witness ==
    /\ prevFailed
    /\ poll.valid
    /\ poll.existed
    /\ poll.differed
    /\ poll.validated
    /\ ~poll.ok
    /\ poll.kept
    /\ config_last_modified # mtime
(***************************************************************************)
(* Claims about the rule commands, the privilege check and the rule-type   *)
(* validation (checked under Spec)                                         *)
(***************************************************************************)
\* C26: _build_firewall_command is a function of (action, direction, file):
\* deny gives the "add rule" command named "PyWall blocked <stem>" with the
\* direction and the program path, allow gives the "delete rule" command with
\* the same name, direction and program; the name depends only on the stem,
\* so every rule the calls leave in the firewall carries the name of its
\* program's stem.
C26_CommandOfActionDirectionFile ==
    /\ \A f \in RegularFiles, d \in {"in", "out", "both"} :
         /\ build_firewall_command("deny", d, f) =
              [verb |-> "add", name |-> <<"PyWall blocked", Stem[f]>>, dir |-> d,
               program |-> f]
         /\ build_firewall_command("allow", d, f) =
              [verb |-> "delete", name |-> <<"PyWall blocked", Stem[f]>>, dir |-> d,
               program |-> f]
    /\ \A f, g \in RegularFiles, a, b \in {"allow", "deny"}, d, e \in {"in", "out", "both"} :
         Stem[f] = Stem[g] =>
            build_firewall_command(a, d, f).name = build_firewall_command(b, e, g).name
    /\ \A r \in rules :
         /\ r.name = <<"PyWall blocked", Stem[r.program]>>
         /\ r.dir \in {"in", "out"}

C26_Witness ==
    /\ \E r1, r2 \in rules :
         /\ r1.program = AppExe
         /\ r2.program = SubAppExe
         /\ r1.name = r2.name
    /\ \E i \in DOMAIN executed : executed[i].verb = "delete" /\ executed[i].ok

\* C29: the privilege is checked once per call, before the per-file loop: a
\* call makes at most one elevation attempt (and shows at most one elevation
\* notification), however many target files it has.
C29_OneElevationPerCall == Len(elev) <= 1

\* What the code keeps of C29: an elevation request that did not raise ends
\* the process, so only a raised request is followed by another one.
ElevationRepeatsOnlyAfterRaise ==
    \A i \in DOMAIN elev : i < Len(elev) => elev[i] = "raised"

\* C30: _validate_rule_type is true for in, out and both; for any other
\* value it returns False to access_handler, which returns "Invalid rule
\* type" to its caller.
C30_InvalidRuleTypeReturned ==
    /\ \A rt \in RuleTypes : validate_rule_type(rt) <=> rt \in {"in", "out", "both"}
    /\ (pc \notin {"idle", "validate"} /\ req.rule_type \notin {"in", "out", "both"}) =>
          (pc = "done" /\ result = "Invalid rule type")

\* What the code does instead: the process ends inside pop with status 0 and
\* access_handler returns nothing.
InvalidRuleTypeExits ==
    (pc \notin {"idle", "validate"} /\ req.rule_type \notin {"in", "out", "both"}) =>
          (pc = "exited" /\ exitMsg = "0" /\ result = "none")

\* C35: access_handler returns "Operation completed" only if, for every
\* target file, at least one firewall command was executed and all of them
\* succeeded; a call whose action is neither allow nor deny is not reported
\* as completed.
C35_CompletedOnlyAfterCommands ==
    (pc = "done" /\ result = "Operation completed") =>
        /\ req.action \in {"allow", "deny"}
        /\ \A f \in Targets :
             /\ \E i \in DOMAIN executed : executed[i].file = f
             /\ \A i \in DOMAIN executed : executed[i].file = f => executed[i].ok

\* What the code keeps of C35: the same for the actions allow and deny.
CompletedAfterCommandsIfAllowOrDeny ==
    (pc = "done" /\ result = "Operation completed" /\ req.action \in {"allow", "deny"}) =>
        \A f \in Targets :
             /\ \E i \in DOMAIN executed : executed[i].file = f
             /\ \A i \in DOMAIN executed : executed[i].file = f => executed[i].ok

\* The rules a call has added or removed so far.
ChangedRules == (rules \ rulesBefore) \cup (rulesBefore \ rules)

\* C36: allow or deny for a file never adds, removes or alters a rule of
\* another program path, also when both files have the same stem and
\* therefore the same rule name.
C36_OtherProgramsUntouched ==
    \A r \in ChangedRules :
        /\ r.program \in Targets
        /\ \E i \in DOMAIN executed :
             executed[i].file = r.program /\ executed[i].dir = r.dir /\ executed[i].ok

C36_Witness ==
    /\ req.path = AppExe
    /\ req.action = "allow"
    /\ pc = "done"
    /\ \E r \in rulesBefore : r.program = AppExe /\ r \notin rules
    /\ \E r \in rules : r.program = SubAppExe /\ r.name = RuleName(AppExe)

\* C38: with FILETYPE.recursive = "True" the children and the descendants
\* merged give every eligible file once, so no file receives the same
\* firewall command twice within one call.
C38_EachFileOnce ==
    req.recursive = "True" =>
        /\ \A i, j \in DOMAIN target_files : target_files[i] = target_files[j] => i = j
        /\ \A i, j \in DOMAIN executed :
             (/\ executed[i].file = executed[j].file
              /\ executed[i].dir = executed[j].dir
              /\ executed[i].verb = executed[j].verb) => i = j

C38_Witness ==
    /\ req.recursive = "True"
    /\ req.path = AppsDir
    /\ pc = "done"
    /\ Targets = {AppExe, ToolExe, SubAppExe}
    /\ Len(executed) = 6

(***************************************************************************)
(* Claims about main (checked under SpecMain)                              *)
(***************************************************************************)
\* A shell request of the form "<allowAccess|denyAccess>[,<ruleType>]" with a
\* file path given beside it.
ShellForm(args) ==
    /\ args.unknown_args # <<>>
    /\ \E a \in {"allowAccess", "denyAccess"} :
         args.c \in {<<a>>} \cup {<<a, Comma, rt>> : rt \in {"in", "out", "both"}}

\* The command line "-file P -allow <true|false> -rule_type <ruleType>" that
\* asks for the same as a shell request of that form.
CliOf(args) ==
    Args(<<>>, <<>>, args.unknown_args[1],
         IF args.c[1] = "allowAccess" THEN "true" ELSE "false",
         IF Len(args.c) = 3 THEN args.c[3] ELSE "both")

\* C27: a shell request "<allowAccess|denyAccess>[,<ruleType>]" with path P
\* calls access_handler with the same path, action and rule type as the
\* command line "-file P -allow <true|false> -rule_type <ruleType>", the rule
\* type being "both" when the shell request has none.
C27_ShellRequestAsCommandLine ==
    (pc # "idle" /\ ShellForm(argv)) =>
        /\ main(argv).kind = "call"
        /\ main(CliOf(argv)) = main(argv)
        /\ <<req.path, req.action, req.rule_type>> =
             <<main(CliOf(argv)).path, main(CliOf(argv)).action,
               main(CliOf(argv)).rule_type>>
        /\ req.path = argv.unknown_args[1]
        /\ req.action = (IF argv.c[1] = "allowAccess" THEN "allow" ELSE "deny")
        /\ Len(argv.c) = 1 => req.rule_type = "both"

C27_Witness ==
    /\ argv.c = <<"denyAccess", Comma, "out">>
    /\ argv.unknown_args = <<AppExe>>
    /\ pc = "done"
    /\ result = "Operation completed"
    /\ rules = {[name |-> RuleName(AppExe), dir |-> "out", program |-> AppExe]}

\* Resolution has nothing to give: the path is missing, is neither a file
\* nor a directory, is a file that is not eligible, or is a directory with
\* no eligible file where the search looks.
NoTargets(path, recursive) ==
    \/ ~exists(path)
    \/ ~is_file(path) /\ ~is_dir(path)
    \/ is_file(path) /\ ~Eligible(path)
    \/ /\ is_dir(path)
       /\ \A f \in RegularFiles :
            (IF recursive = "False" THEN Parent[f] = path ELSE Under(f, path))
               => ~Eligible(f)

\* C28: when resolution yields no target, access_handler returns "No target
\* files" without a privilege check, an elevation attempt or a firewall
\* command.
C28_NoTargetsNothingRuns ==
    (touched.fs /\ NoTargets(req.path, req.recursive)) =>
        /\ pc = "done"
        /\ result = "No target files"
        /\ target_files = <<>>
        /\ ~touched.built
        /\ ~touched.priv
        /\ elev = <<>>
        /\ executed = <<>>
        /\ rules = rulesBefore

C28_Witness ==
    /\ req.path = EmptyDir
    /\ touched.fs
    /\ result = "No target files"

\* C37: main never calls access_handler with an action other than allow or
\* deny or a rule type other than in, out or both: other -allow and
\* -rule_type values end the process at argument parsing, an unknown shell
\* action ends it before the call, and a shell string with an unrecognized
\* rule type is run with "both".
C37_MainCallsWithValidArguments ==
    /\ pc \notin {"idle", "exited"} =>
          (req.action \in {"allow", "deny"} /\ req.rule_type \in {"in", "out", "both"})
    /\ (argv.allow \notin AllowChoices \cup {""}
        \/ argv.rule_type \notin RuleTypeChoices \cup {""}) =>
          (pc = "exited" /\ exitMsg = "2" /\ req = NoReq)
    /\ (/\ argv.c # <<>>
        /\ argv.unknown_args # <<>>
        /\ argv.c[1] \notin {"allowAccess", "denyAccess", "shellHandler.allowAccess",
                             "shellHandler.denyAccess"}) =>
          (pc = "exited" /\ exitMsg = "1" /\ req = NoReq)
    /\ (/\ argv.c # <<>>
        /\ req # NoReq
        /\ Len(argv.c) = 3
        /\ argv.c[3] \notin {"in", "out", "both"}) =>
          req.rule_type = "both"

C37_Witness ==
    /\ argv.c = <<"allowAccess", Comma, "sideways">>
    /\ argv.unknown_args = <<AppExe>>
    /\ req.rule_type = "both"
    /\ req.action = "allow"
    /\ pc = "done"

(***************************************************************************)
(* Claims about the policy of a running process (checked under SpecPolicy) *)
(***************************************************************************)
\* The text the document holds for a FILETYPE option (the default one when
\* the document does not hold the option).
StoredPolicy(d, variable) ==
    IF d.kind = "ok" /\ <<"FILETYPE", variable>> \in DOMAIN d.opts
    THEN d.opts[<<"FILETYPE", variable>>]
    ELSE default_config[<<"FILETYPE", variable>>]

\* The files resolution returns when it filters with the texts given.
ResolvedWith(accepted, blacklist) ==
    gather(res.path, path_foreach_in_store(disk, storageOK).recursive,
           get_allowed_types(accepted), Range(split_comma(blacklist)), TRUE).files

\* C32: a change of FILETYPE.accepted_types or FILETYPE.blacklisted_names
\* made while the process runs is the policy the next target resolution of
\* that process applies: resolution filters with the values the document
\* holds when it runs, never with values read before the change.
C32_ResolutionUsesCurrentPolicy ==
    [][ResolveStored =>
         res'.files = ResolvedWith(StoredPolicy(disk, "accepted_types"),
                                   StoredPolicy(disk, "blacklisted_names"))]_vars

\* What the code keeps of C32: resolution applies the current policy when
\* the document still holds what it held at import.
ResolutionUsesPolicyOfImport ==
    [][(/\ ResolveStored
        /\ StoredPolicy(disk, "accepted_types") = res.accepted
        /\ StoredPolicy(disk, "blacklisted_names") = res.blacklist) =>
         res'.files = ResolvedWith(StoredPolicy(disk, "accepted_types"),
                                   StoredPolicy(disk, "blacklisted_names"))]_vars

\* The stems append_config has put into the list the process read at import.
AppendedStems == Range(split_comma_space(res.blacklist))

\* C33: a stem added to FILETYPE.blacklisted_names through append_config is
\* blacklisted in every process started afterwards, whatever its place in
\* the stored list: no file with that stem is returned as a target.
C33_AppendedStemIsBlacklisted ==
    res.done => \A f \in Range(res.files) : <<Stem[f]>> \notin AppendedStems

\* What the code keeps of C33: the first stem of the stored list is
\* blacklisted.
FirstAppendedStemIsBlacklisted ==
    (res.done /\ res.blacklist # <<>>) =>
        \A f \in Range(res.files) : <<Stem[f]>> # split_comma_space(res.blacklist)[1]

\* The text the document holds for FILETYPE.recursive, <<>> when it holds
\* none.
StoredRecursive(d) ==
    IF d.kind = "ok" /\ <<"FILETYPE", "recursive">> \in DOMAIN d.opts
    THEN d.opts[<<"FILETYPE", "recursive">>]
    ELSE <<>>

\* C39: target resolution changes the document in one case only: a
\* FILETYPE.recursive that is neither "True" nor "False" is overwritten with
\* "True" and the directory is enumerated recursively; with "True" or
\* "False" the document is left as it is.
C39_ResolutionWritesOnlyRecursive ==
    [][ResolveStored =>
         IF StoredRecursive(disk) \in {<<"True">>, <<"False">>}
         THEN disk' = disk
         ELSE is_dir(res.path) =>
                (StoredRecursive(disk') = <<"True">> /\ res'.recursive = "True")]_vars

\* What the code keeps of C39: the same, for a value get_config can read and
\* a document modify_config can write.
ResolutionWritesRecursiveIfStorable ==
    [][(ResolveStored /\ storageOK /\ ~BadInterpolation(StoredRecursive(disk))) =>
         IF StoredRecursive(disk) \in {<<"True">>, <<"False">>}
         THEN disk' = disk
         ELSE is_dir(res.path) =>
                (StoredRecursive(disk') = <<"True">> /\ res'.recursive = "True")]_vars

(***************************************************************************)
(* Claims about the watcher's progress (checked under SpecWatchFair)       *)
(***************************************************************************)
\* The document is there and can be parsed, but lacks an option of the
\* default schema or holds another version than the program's.
Damaged(d) ==
    /\ d.kind = "ok"
    /\ \/ ~(DOMAIN default_config \subseteq DOMAIN d.opts)
       \/ d.opts[VersionKey] # default_config[VersionKey]

\* The document is there and can be parsed, but lacks a default option.
KeysMissing(d) == d.kind = "ok" /\ ~(DOMAIN default_config \subseteq DOMAIN d.opts)

\* C31: under fair scheduling of the watcher, whenever an external edit
\* leaves the document present and parseable but without a default option (or
\* with a stale version), the watcher eventually validates and the document
\* eventually holds every default option again.
C31_EditEventuallyRepaired ==
    /\ Damaged(disk) ~> (w.pc # "sleep" \/ ~Damaged(disk))
    /\ KeysMissing(disk) ~> ~KeysMissing(disk)

\* C31 as the code has it: the same while the document can be written.
C31_EditEventuallyRepairedIfWritable ==
    /\ Damaged(disk) ~> (w.pc # "sleep" \/ ~Damaged(disk))
    /\ (KeysMissing(disk) /\ storageOK) ~> (~KeysMissing(disk) \/ ~storageOK)

C31_Witness ==
    /\ edits = 1
    /\ storageOK
    /\ poll.validated
    /\ poll.ok
    /\ disk = DefaultDoc
    /\ mtime = 4

\* The watcher sleeps and has seen the document as it is.
Settled == w.pc = "sleep" /\ config_last_modified = mtime

\* Once settled the watcher stays so until the next edit: it neither
\* validates nor writes.
SettledStays ==
    [][(Settled /\ edits' = edits) =>
         (Settled' /\ disk' = disk /\ mtime' = mtime /\ ~poll'.validated)]_vars

\* C34: without further edits the watcher comes to rest: after finitely many
\* validations the timestamp it keeps is the document's (as far as there is
\* a document), and from then on it neither validates nor writes.
C34_WatcherSettles ==
    /\ \A n \in 0..MaxWatchEdits :
         (edits = n) ~> (Settled \/ disk.kind = "missing" \/ edits > n)
    /\ SettledStays

\* C34 as the code has it: while the document can be read and written the
\* watcher comes to rest, a validation of its own that rewrites the document
\* included; a validation that fails is repeated at every poll.
C34_WatcherSettlesIfWritable ==
    /\ \A n \in 0..MaxWatchEdits :
         (edits = n /\ storageOK /\ disk.kind = "ok") ~> (Settled \/ edits > n)
    /\ SettledStays

C34_Witness ==
    /\ Settled
    /\ poll.valid
    /\ ~poll.validated
    /\ prevFailed = FALSE
    /\ edits >= 1
    /\ mtime >= 4
    /\ disk = DefaultDoc

====
